---- MODULE Spec2Model ----
(***************************************************************************)
(* BluStash: incremental filesystem index (mark-and-sweep scan over Dir /  *)
(* File rows) and the backup stager that writes the xorriso manifest.      *)
(*                                                                         *)
(* The store is modelled as the committed database `db` and the view of    *)
(* the open transaction of the scanning session `tx`; objects added to the *)
(* session but not yet flushed are in `pending`.                           *)
(***************************************************************************)
EXTENDS Integers, Sequences, FiniteSets, TLC

(***************************************************************************)
(* Bounds of the model.                                                    *)
(***************************************************************************)
MaxScans == 2

\* insert_files_with_progress(..., chunk_size: int = 1000)
chunk_size_default == 1000

(***************************************************************************)
(* Paths are sequences of path segments below "/".                         *)
(***************************************************************************)
NULL == 0

RootD  == <<"d">>
RootDD == <<"d", "d">>
DirA   == <<"d", "sgayrach">>
DirB   == <<"d", "hhuvkkzq">>
\* A directory two levels below /d, made only in the trees that need one.
DirAE  == <<"d", "sgayrach", "e">>

FileAX == <<"d", "sgayrach", "x">>
FileBX == <<"d", "hhuvkkzq", "x">>
FileDX == <<"d", "d", "x">>

\* Three more regular files, written only where the size of a listing
\* matters.
FileDY == <<"d", "d", "y">>
FileAY == <<"d", "sgayrach", "y">>
FileRY == <<"d", "y">>
MoreFiles == {FileRY, FileDY, FileAY}

\* Symbolic links in /d/d, one to a directory and one to a regular file;
\* they are there in every tree.
LinkDir  == <<"d", "d", "l">>
LinkFile == <<"d", "d", "s">>
Symlinks == {LinkDir, LinkFile}

AllDirs   == {RootD, RootDD, DirA, DirB}
DeepDirs  == {DirAE}
AllFiles  == {FileDX, FileAX, FileBX}
\* Directories the model never removes.  DirB, whose path hash equals that
\* of DirA, is there from the start or made later; /d/d is scanned as a root
\* only while it is absent.
FixedDirs == {RootD, RootDD, DirB}
ScanRoots == {RootD, RootDD}

Hello == <<104, 101, 108, 108, 111>>
World == <<119, 111, 114, 108, 100>>
Contents == {Hello, World}

Parent(path) == SubSeq(path, 1, Len(path) - 1)
Name(path)   == path[Len(path)]

IsPrefix(p, q) == Len(p) <= Len(q) /\ SubSeq(q, 1, Len(p)) = p

\* str(path): "/" followed by the segments joined with "/".
RECURSIVE JoinSegs(_)
JoinSegs(path) ==
    IF Len(path) = 0 THEN ""
    ELSE IF Len(path) = 1 THEN path[1]
    ELSE path[1] \o "/" \o JoinSegs(Tail(path))

PathStr(path) == "/" \o JoinSegs(path)

\* xxh32_intdigest of the UTF-8 bytes of a string (seed 0), as a decimal
\* numeral; the table holds the digests of the path strings of the model.
\* "/d/sgayrach" and "/d/hhuvkkzq" have the same 32-bit digest.
xxh32_intdigest(s) ==
    CASE s = "/d"          -> "1119973715"
      [] s = "/d/d"        -> "3774677302"
      [] s = "/d/sgayrach" -> "4285510190"
      [] s = "/d/hhuvkkzq" -> "4285510190"
      [] s = "/d/sgayrach/e" -> "1343832733"

compute_full_path_hash(path) == xxh32_intdigest(PathStr(path))

\* xxh3_128 digest of a byte string: a function of the bytes alone, taken to
\* be injective on the contents of the model.
xxh3_128_hexdigest(data) == <<"xxh3_128", data>>

\* (size, hash) of the bytes read from a file.
read_and_hash(data) == [size |-> Len(data), hash |-> xxh3_128_hexdigest(data)]

(***************************************************************************)
(* State.                                                                  *)
(***************************************************************************)
VARIABLES
    fs,       \* the filesystem: [dirs, files]
    db,       \* committed store: [dirs, files, sessions]
    tx,       \* the scanning session's view of its open transaction
    pending,  \* File objects added to the session and not yet flushed
    scan,     \* the running scan (cli.scan_command._scan)
    stage,    \* the running staging pass (create_mapping_from_db)
    nscans,   \* number of scans started
    stable,   \* root of the last scan that reached the end of sweep, if the
              \* filesystem was not changed since; <<>> otherwise
    xorriso,  \* the CompletedProcess of the last run_xorriso, if one ran
    halted,   \* root of the last scan if it was cancelled and the
              \* filesystem was not changed since it started, recorded
              \* where the scan that follows is looked at; <<>> otherwise
    twin      \* a copy of the database file set aside by the operator, and
              \* the store a scan left before the copy was put back

vars == <<fs, db, tx, pending, scan, stage, nscans, stable, xorriso, halted, twin>>

EmptyStore == [dirs |-> {}, files |-> {}, sessions |-> {}]

Max(S) == CHOOSE m \in S : \A n \in S : n <= m

\* SQLite rowid of an INTEGER PRIMARY KEY without AUTOINCREMENT.
NextId(rows) == IF rows = {} THEN 1 ELSE Max({r.id : r \in rows}) + 1

IdleScan ==
    [pc |-> "idle", root |-> <<>>, stack |-> <<>>, dir_lookup |-> <<>>,
     tasks |-> <<>>, i |-> 0, processed |-> 0, staged |-> 0,
     sess |-> [state |-> "none", id |-> NULL, changed_files |-> 0],
     chunk_size |-> 0, broken |-> FALSE, outcome |-> "none", same |-> FALSE,
     resumes |-> FALSE, hashing |-> {}, db0 |-> EmptyStore,
     ioerrors |-> {}]

NoTwin == [copied |-> FALSE, copy |-> EmptyStore,
           restored |-> FALSE, root |-> <<>>, left |-> EmptyStore]

IdleStage ==
    [pc |-> "idle", base |-> <<>>, lines |-> <<>>, file_ids |-> <<>>,
     skipped |-> {}, meta |-> [written |-> FALSE, file_count |-> 0],
     manifest |-> <<>>, db0 |-> EmptyStore,
     prev |-> [pc |-> "none", file_ids |-> <<>>]]

InitFs ==
    {[dirs  |-> dirs, files |-> [f \in {FileAX, FileDX} |-> Hello], denied |-> {},
      links |-> [f \in {} |-> Hello]] :
        dirs \in {AllDirs, AllDirs \ {DirB}}}

Init ==
    /\ fs \in InitFs
    /\ db = EmptyStore
    /\ tx = EmptyStore
    /\ pending = <<>>
    /\ scan = IdleScan
    /\ stage = IdleStage
    /\ nscans = 0
    /\ stable = <<>>
    /\ xorriso = [ran |-> FALSE, returncode |-> 0]
    /\ halted = <<>>
    /\ twin = NoTwin

Quiet == scan.pc = "idle" /\ stage.pc = "idle"

\* The filesystem is changed only while a later scan can still observe it.
CanChange == Quiet /\ nscans < MaxScans

(***************************************************************************)
(* The filesystem changes only between runs of the tool.                   *)
(***************************************************************************)
FilesIn(dir) == {f \in DOMAIN fs.files : Parent(f) = dir}

\* The contents the model writes: every file is created as Hello; World
\* overwrites /d/d/x in the trees without DirB and /d/sgayrach/x in the
\* trees with it.
Writable(f, data) ==
    \/ data = Hello
    \/ data = World /\ f = (IF DirB \in fs.dirs THEN FileAX ELSE FileDX)

\* A write that a scan can still observe while fewer than `limit` scans
\* were started.
WriteFileWithin(limit, f, data) ==
    /\ Quiet /\ nscans < limit
    /\ Writable(f, data)
    /\ Parent(f) \in fs.dirs
    /\ f \notin DOMAIN fs.links
    /\ IF f \in DOMAIN fs.files THEN fs.files[f] # data ELSE TRUE
    /\ fs' = [fs EXCEPT !.files =
                [g \in DOMAIN fs.files \cup {f} |->
                    IF g = f THEN data ELSE fs.files[g]]]
    /\ stable' = <<>>
    /\ halted' = <<>>
    /\ UNCHANGED <<db, tx, pending, scan, stage, nscans, xorriso, twin>>

WriteFile(f, data) == WriteFileWithin(MaxScans, f, data)

RemoveFile(f) ==
    /\ CanChange
    /\ f \in DOMAIN fs.files
    /\ fs' = [fs EXCEPT !.files = [g \in DOMAIN fs.files \ {f} |-> fs.files[g]],
                        !.denied = @ \ {f}]
    /\ stable' = <<>>
    /\ halted' = <<>>
    /\ UNCHANGED <<db, tx, pending, scan, stage, nscans, xorriso, twin>>

\* Remove a directory with everything below it.
RemoveTree(d) ==
    /\ CanChange
    /\ d \in fs.dirs
    /\ fs' = [dirs  |-> {e \in fs.dirs : ~IsPrefix(d, e)},
              files |-> [g \in {h \in DOMAIN fs.files : ~IsPrefix(d, h)} |->
                            fs.files[g]],
              denied |-> {e \in fs.denied : ~IsPrefix(d, e)},
              links |-> [g \in {h \in DOMAIN fs.links : ~IsPrefix(d, h)} |->
                            fs.links[g]]]
    /\ stable' = <<>>
    /\ halted' = <<>>
    /\ UNCHANGED <<db, tx, pending, scan, stage, nscans, xorriso, twin>>

RemoveDir(d) == d \notin FixedDirs /\ RemoveTree(d)

MakeDir(d) ==
    /\ CanChange
    /\ d \in (AllDirs \cup DeepDirs) \ fs.dirs
    /\ Parent(d) \in fs.dirs
    /\ fs' = [fs EXCEPT !.dirs = @ \cup {d}]
    /\ stable' = <<>>
    /\ halted' = <<>>
    /\ UNCHANGED <<db, tx, pending, scan, stage, nscans, xorriso, twin>>

\* The entries whose read permission the model takes away: listing such a
\* directory and opening such a file raise PermissionError.  The scan
\* command refuses a root that is not readable.
Deniable == {RootDD, DirA, FileAX}

chmod(p, readable) ==
    /\ CanChange
    /\ p \in fs.dirs \cup DOMAIN fs.files
    /\ readable = (p \in fs.denied)
    /\ fs' = [fs EXCEPT !.denied = IF readable THEN @ \ {p} ELSE @ \cup {p}]
    /\ stable' = <<>>
    /\ halted' = <<>>
    /\ UNCHANGED <<db, tx, pending, scan, stage, nscans, xorriso, twin>>

(***************************************************************************)
(* Path Index Model (db/models.py).                                        *)
(***************************************************************************)
\* Index("ux_dir_parent_name", "parent_id", "name", unique=True).  SQLite
\* treats NULL parent_id values as distinct from each other.
ux_dir_parent_name(dirs) ==
    \A a \in dirs : \A b \in dirs :
        (a.id # b.id /\ a.parent_id # NULL /\ a.parent_id = b.parent_id)
            => a.name # b.name

\* The File table without its unique index.
ux_file_dir_name_dropped(files) == TRUE

\* Index("ux_file_dir_name", "dir_id", "name", unique=True).
ux_file_dir_name(files) ==
    \A a \in files : \A b \in files :
        (a.id # b.id /\ a.dir_id = b.dir_id) => a.name # b.name

\* A Dir constructed without its parent.
NewDir_noparent(id, path, parent_id) ==
    [id |-> id, name |-> Name(path),
     full_path_hash |-> compute_full_path_hash(path),
     parent_id |-> NULL, is_valid |-> TRUE]

\* Dir(name, full_path_hash, parent, is_valid) after the flush gave it an id.
NewDir(id, path, parent_id) ==
    [id |-> id, name |-> Name(path),
     full_path_hash |-> compute_full_path_hash(path),
     parent_id |-> parent_id, is_valid |-> TRUE]

\* is_safed: mapped_column(Boolean, nullable=False, default=False)
is_safed_default == FALSE

\* File(name, dir, size, hash_xx128, session, ancestor, is_valid) before
\* the flush; is_safed takes its column default.  The File class of
\* models.py declares neither session nor ancestor; the two references
\* are modelled as the scanner uses them.
NewFile(path, dir_id, data, ancestor_id) ==
    [id |-> NULL, dir_id |-> dir_id, name |-> Name(path),
     size |-> read_and_hash(data).size,
     hash_xx128 |-> read_and_hash(data).hash,
     is_safed |-> is_safed_default, is_valid |-> TRUE,
     ancestor_id |-> ancestor_id, session_id |-> NULL]

\* ScanSession(): surrogate id and the changed_files count.
NewScanSession == [state |-> "transient", id |-> NULL, changed_files |-> 0]

DirById(dirs, id) == CHOOSE r \in dirs : r.id = id

\* Dir.full_path: the names on the parent chain, root first.
RECURSIVE full_path(_, _)
full_path(dirs, id) ==
    IF id = NULL \/ ~(\E r \in dirs : r.id = id) THEN <<>>
    ELSE LET node == DirById(dirs, id)
         IN  full_path(dirs \ {node}, node.parent_id) \o <<node.name>>

\* File.path
file_path(store, f) == full_path(store.dirs, f.dir_id) \o <<f.name>>

(***************************************************************************)
(* Session.flush(): INSERT the pending objects, UPDATE the dirty ones.     *)
(***************************************************************************)
RECURSIVE InsertFiles(_, _, _)
InsertFiles(files, pend, session_id) ==
    IF pend = <<>> THEN files
    ELSE InsertFiles(
            files \cup {[Head(pend) EXCEPT !.id = NextId(files),
                                           !.session_id = session_id]},
            Tail(pend), session_id)

FlushSession(store, sess) ==
    IF sess.state = "pending"
    THEN [sess EXCEPT !.state = "persistent", !.id = NextId(store.sessions)]
    ELSE sess

FlushSessions(store, sess) ==
    IF sess.state = "pending"
    THEN store.sessions \cup
            {[id |-> NextId(store.sessions), changed_files |-> sess.changed_files]}
    ELSE IF sess.state = "persistent"
    THEN {IF r.id = sess.id THEN [r EXCEPT !.changed_files = sess.changed_files]
          ELSE r : r \in store.sessions}
    ELSE store.sessions

\* The store after the flush, had no constraint failed.
Flushed(store, pend, sess) ==
    [dirs     |-> store.dirs,
     files    |-> InsertFiles(store.files, pend, FlushSession(store, sess).id),
     sessions |-> FlushSessions(store, sess)]

\* A flush no constraint rejects.
FlushFails_never(store, pend, sess) == FALSE

\* IntegrityError: a unique index rejects the flush.
FlushFails(store, pend, sess) ==
    \/ ~ux_file_dir_name(Flushed(store, pend, sess).files)
    \/ ~ux_dir_parent_name(store.dirs)

(***************************************************************************)
(* Scan Synchronizer (cli.scan_command._scan, db/utils.py).                *)
(***************************************************************************)
ChunkSizes == {2, chunk_size_default}

\* The start of _scan, as long as fewer than `limit` scans were started.
ScanStartWithin(limit, root, chunk) ==
    /\ Quiet
    /\ nscans < limit
    /\ root \in fs.dirs \ fs.denied
    /\ root = RootDD => DirB \notin fs.dirs
    /\ scan' = [IdleScan EXCEPT !.pc = "reset", !.root = root,
                                !.chunk_size = chunk,
                                !.sess = NewScanSession,
                                !.same = (stable = root),
                                !.resumes = (halted = root), !.db0 = db]
    /\ tx' = db
    /\ pending' = <<>>
    /\ nscans' = nscans + 1
    /\ stable' = <<>>
    /\ halted' = <<>>
    /\ UNCHANGED <<fs, db, stage, xorriso, twin>>

ScanStart(root, chunk) == ScanStartWithin(MaxScans, root, chunk)

\* The paths the model passes to the scan command that it refuses when
\* they are unreadable (/d/d), missing (/d/hhuvkkzq) or no directory
\* (/d/d/x).
RefusedRoots == {RootDD, DirB, FileDX}

\* Mutation: the root is looked at only after the invalidate phase.
ScanRefused_after_reset(root) ==
    /\ Quiet
    /\ root \notin fs.dirs \ fs.denied
    /\ scan' = [IdleScan EXCEPT !.pc = "done", !.outcome = "refused",
                                !.root = root, !.db0 = db]
    /\ db' = [db EXCEPT !.dirs  = {[r EXCEPT !.is_valid = FALSE] : r \in db.dirs},
                        !.files = {[r EXCEPT !.is_valid = FALSE] : r \in db.files}]
    /\ UNCHANGED <<fs, tx, pending, stage, nscans, stable, xorriso, halted, twin>>

\* The scan command with a root that does not exist, is no directory or is
\* not readable: the argument is rejected (exists=True, file_okay=False,
\* readable=True), or the check of the configured path exits with code 1,
\* before the tables are created and before a session is opened.
ScanRefused(root) ==
    /\ Quiet
    /\ root \notin fs.dirs \ fs.denied
    /\ scan' = [IdleScan EXCEPT !.pc = "done", !.outcome = "refused",
                                !.root = root, !.db0 = db]
    /\ UNCHANGED <<fs, db, tx, pending, stage, nscans, stable, xorriso, halted, twin>>

\* A reset that leaves the File rows as they are.
reset_all_valid_flags_dirs_only(store) ==
    [store EXCEPT !.dirs = {[r EXCEPT !.is_valid = FALSE] : r \in store.dirs}]

\* update(Dir).values(is_valid=False); update(File).values(is_valid=False);
\* commit.
reset_all_valid_flags(store) ==
    [store EXCEPT !.dirs  = {[r EXCEPT !.is_valid = FALSE] : r \in store.dirs},
                  !.files = {[r EXCEPT !.is_valid = FALSE] : r \in store.files}]

ResetValid ==
    /\ scan.pc = "reset"
    /\ tx' = reset_all_valid_flags(tx)
    /\ db' = tx'
    /\ scan' = [scan EXCEPT !.pc = "walk",
                  !.stack = <<[path |-> scan.root, parent |-> NULL]>>]
    /\ UNCHANGED <<fs, pending, stage, nscans, stable, xorriso, halted, twin>>

\* The rollback of the except branches of _scan (IntegrityError: outcome
\* "integrity_error"; any other Exception: "error"; both exit with code 1),
\* and of the session closing without a commit when the scan is cancelled
\* ("interrupted"): the open transaction is dropped.
Abort(outcome) ==
    /\ tx' = db
    /\ pending' = <<>>
    /\ scan' = [IdleScan EXCEPT !.pc = "done", !.outcome = outcome,
                                !.root = scan.root, !.same = scan.same,
                                !.resumes = scan.resumes, !.db0 = scan.db0,
                                !.ioerrors = scan.ioerrors]

\* Path.is_symlink, Path.is_dir and Path.is_file; the last two follow links.
is_symlink(e) == e \in Symlinks \cup DOMAIN fs.links
is_dir(e)     == e \in fs.dirs \/ e = LinkDir
is_file(e)    == e \in DOMAIN fs.files \/ e = LinkFile \/ e \in DOMAIN fs.links

\* list(path.iterdir()) and open(file_path, "rb") raise PermissionError.
raises_PermissionError(path) == path \in fs.denied

\* The entries of a directory.
Entries(path) ==
    {e \in AllDirs \cup DeepDirs \cup AllFiles \cup MoreFiles \cup Symlinks :
        Parent(e) = path /\ (is_dir(e) \/ is_file(e))}

\* The sequences that hold every element of a set once.
Orders(S) ==
    {q \in [1..Cardinality(S) -> S] :
        \A i \in DOMAIN q : \A j \in DOMAIN q : i # j => q[i] # q[j]}

\* list(path.iterdir()): the entries in arbitrary order; every order is a
\* listing the call can return.
iterdir(path) == Orders(Entries(path))

\* Mutation: the calls for the entries are made before the flush, while the
\* id of dir_obj is still None.
ChildFrames_unflushed(path, listing, dir_id) ==
    LET kids == IF raises_PermissionError(path) THEN <<>>
                ELSE SelectSeq(listing, LAMBDA e : is_dir(e) /\ ~is_symlink(e))
    IN  [k \in 1..Len(kids) |-> [path |-> kids[k], parent |-> NULL]]

\* The entries of a listing that are directories and no symlinks, in
\* listing order, as the frames of the recursive calls.
\* A listing that raises is caught and logged: no frames.
ChildFrames(path, listing, dir_id) ==
    LET kids == IF raises_PermissionError(path) THEN <<>>
                ELSE SelectSeq(listing, LAMBDA e : is_dir(e) /\ ~is_symlink(e))
    IN  [k \in 1..Len(kids) |-> [path |-> kids[k], parent |-> dir_id]]

\* A revalidation that leaves the parent of the row as it was.
Reparented_kept(old, parent) == [old EXCEPT !.is_valid = TRUE]

\* if dir_obj.parent_id != (parent_obj.id if parent_obj else None):
\* dir_obj.parent = parent_obj; dir_obj.is_valid = True.  The flush writes
\* UPDATE dir SET parent_id, is_valid on the row.  Dir.parent refers to
\* Dir itself and is not loaded by the select of the lookup, and the only
\* call that finds a row with a parent and passes None is the call for the
\* scan root, the first statement of a new session that loads objects: the
\* old parent is not in the session, the row is taken out of no children
\* collection, and no delete-orphan cascade runs.
Reparented(old, parent) == [old EXCEPT !.parent_id = parent, !.is_valid = TRUE]

\* Entries of a directory that are regular files and no symlinks.
\* A listing that raises is caught and logged: no entries.
FileEntries(path, listing) ==
    IF raises_PermissionError(path) THEN <<>>
    ELSE SelectSeq(listing, LAMBDA e : is_file(e) /\ ~is_symlink(e))

\* One call of walk_dirs_internal(path, parent_obj) up to its loop over the
\* entries; the recursive calls are the frames pushed on the stack.  An
\* exception raised by a call is caught by the try/except around the loop
\* of its caller, which ends that loop; raised by the call for the scan
\* root it reaches _scan.
\* A listing that raises is logged (scan.ioerrors).
WalkDir ==
    /\ scan.pc = "walk"
    /\ scan.stack # <<>>
    /\ \E listing \in iterdir(Head(scan.stack).path) :
       LET fr       == Head(scan.stack)
           rest     == Tail(scan.stack)
           hash     == compute_full_path_hash(fr.path)
           existing == {r \in tx.dirs : r.full_path_hash = hash}
           old      == CHOOSE r \in existing : TRUE
           dir_obj  == IF existing # {} THEN Reparented(old, fr.parent)
                       ELSE NewDir(NextId(tx.dirs), fr.path, fr.parent)
           dirs1    == (tx.dirs \ existing) \cup {dir_obj}
           fails    == ~ux_dir_parent_name(dirs1)
           raises   == scan.broken \/ Cardinality(existing) > 1 \/ fails
           stack1   == IF raises
                       THEN SelectSeq(rest, LAMBDA g : Parent(g.path) # Parent(fr.path))
                       ELSE ChildFrames(fr.path, listing, dir_obj.id) \o rest
       IN  IF raises /\ fr.path = scan.root
           THEN Abort(IF ~scan.broken /\ Cardinality(existing) <= 1
                      THEN "integrity_error" ELSE "error")
           ELSE /\ tx' = IF raises
                         THEN (IF scan.broken \/ ~fails THEN tx ELSE db)
                         ELSE [tx EXCEPT !.dirs = dirs1]
                /\ pending' = pending
                /\ scan' = [scan EXCEPT
                      !.stack = stack1,
                      !.broken = raises /\ (scan.broken \/ fails),
                      !.dir_lookup = IF raises THEN @
                                     ELSE Append(@, [path |-> fr.path, dir |-> dir_obj.id]),
                      !.ioerrors = IF ~raises /\ raises_PermissionError(fr.path)
                                   THEN @ \cup {fr.path} ELSE @,
                      !.pc = IF stack1 = <<>> THEN "list" ELSE "walk"]
    /\ UNCHANGED <<fs, db, stage, nscans, stable, xorriso, halted, twin>>

\* The (entry, dir_obj) pairs collected from one directory of dir_lookup,
\* for a listing of it.
DirTasks(entry, listing) ==
    LET files == FileEntries(entry.path, listing)
    IN  [k \in 1..Len(files) |-> [path |-> files[k], dir |-> entry.dir]]

\* The lists of (entry, dir_obj) pairs the loop over dir_lookup can
\* collect: the directories in the order of dir_lookup, the files of each
\* in the order of its listing.
RECURSIVE file_processing_tasks(_)
file_processing_tasks(lookup) ==
    IF lookup = <<>> THEN {<<>>}
    ELSE {DirTasks(Head(lookup), listing) \o rest :
            listing \in iterdir(Head(lookup).path),
            rest \in file_processing_tasks(Tail(lookup))}

ListFiles ==
    /\ scan.pc = "list"
    /\ \E tasks \in file_processing_tasks(scan.dir_lookup) :
          scan' = [scan EXCEPT !.tasks = tasks,
                               !.i = 0,
                               !.pc = IF tasks = <<>> THEN "final" ELSE "files"]
    /\ UNCHANGED <<fs, db, tx, pending, stage, nscans, stable, xorriso, halted, twin>>

\* select(File).where(name, dir_id).order_by(File.id.desc()) ... first()
LatestFiles(files, name, dir_id) ==
    LET cands == {r \in files : r.name = name /\ r.dir_id = dir_id}
    IN  {r \in cands : \A q \in cands : q.id <= r.id}

\* Mutation: the stored digest is compared with a value of another type and
\* never equals it.
FileUnchanged_never(existing, digest) == FALSE

\* existing_file_obj.hash_xx128 == hash_val
FileUnchanged(existing, digest) == existing.hash_xx128 = digest.hash

\* A revalidation that also marks the row as exported.
Revalidated_safed(existing) ==
    [existing EXCEPT !.is_valid = TRUE, !.is_safed = TRUE]

\* existing_file_obj.is_valid = True
Revalidated(existing) == [existing EXCEPT !.is_valid = TRUE]

\* A failing commit that leaves the work flushed before it in the store.
CommitOr_partial(store, pend, sess, broken, next) ==
    IF broken \/ FlushFails(store, pend, sess)
    THEN /\ Abort(IF broken THEN "error" ELSE "integrity_error")
         /\ db' = store
    ELSE /\ tx' = Flushed(store, pend, sess)
         /\ db' = tx'
         /\ pending' = <<>>
         /\ scan' = next

\* session.flush(); session.commit() as the scan issues them: either the
\* commit happens or the exception reaches the except branches of _scan.
CommitOr(store, pend, sess, broken, next) ==
    IF broken \/ FlushFails(store, pend, sess)
    THEN /\ Abort(IF broken THEN "error" ELSE "integrity_error")
         /\ db' = db
    ELSE /\ tx' = Flushed(store, pend, sess)
         /\ db' = tx'
         /\ pending' = <<>>
         /\ scan' = next

\* file_path.is_symlink() or not file_path.is_file(), looked at again when
\* the entry is processed: fs.files holds the regular files that are no
\* links.
is_file_now(path) == path \in DOMAIN fs.files

\* One iteration of the loop over file_processing_tasks, up to the test
\* `(i + 1) % chunk_size == 0`.  An entry that is no regular file any more
\* is skipped with `continue`, which also skips the counter and the chunk
\* commit.  If the read raises, the except branch logs it (scan.ioerrors)
\* and the iteration goes on to the counter and the test: no SELECT, no
\* autoflush, no row touched.  At the end of a chunk the loop awaits the
\* flush and the commit (CommitChunk); the scan can be cancelled there,
\* with the line logged and nothing of the chunk committed.
\* The read is awaited in a thread, and the entry can change after the
\* test and before the thread opens it.  "removed": open raises
\* FileNotFoundError.  "linked": the entry is now a symbolic link to a
\* readable regular file holding `bytes`; open follows the link and the
\* read returns the bytes of the target.  "rewritten": the entry is still a
\* regular file and holds `bytes`.
insert_file(race, bytes) ==
    /\ scan.pc = "files"
    /\ scan.i < Len(scan.tasks)
    /\ race # "none" => is_file_now(scan.tasks[scan.i + 1].path)
    /\ race = "rewritten" => /\ bytes # fs.files[scan.tasks[scan.i + 1].path]
                             /\ ~raises_PermissionError(scan.tasks[scan.i + 1].path)
    /\ LET t        == scan.tasks[scan.i + 1]
           gone     == ~is_file_now(t.path)
           unread   == \/ race = "removed"
                       \/ race # "linked" /\ raises_PermissionError(t.path)
           data     == IF race \in {"linked", "rewritten"} THEN bytes
                       ELSE fs.files[t.path]
           digest   == read_and_hash(data)
           \* the SELECT autoflushes the object added by the iteration before
           fails    == ~unread /\ ~scan.broken /\ FlushFails(tx, pending, scan.sess)
           raises   == scan.broken \/ fails
           tx1      == Flushed(tx, pending, scan.sess)
           sess1    == FlushSession(tx, scan.sess)
           found    == LatestFiles(tx1.files, Name(t.path), t.dir)
           existing == CHOOSE r \in found : TRUE
           match    == found # {} /\ FileUnchanged(existing, digest)
           tx2      == IF unread THEN tx
                       ELSE IF raises THEN (IF fails THEN db ELSE tx)
                       ELSE IF match
                       THEN [tx1 EXCEPT !.files =
                               (@ \ {existing}) \cup {Revalidated(existing)}]
                       ELSE tx1
           pend2    == IF unread THEN pending
                       ELSE IF raises \/ match THEN <<>>
                       ELSE <<NewFile(t.path, t.dir, data,
                                      IF found = {} THEN NULL ELSE existing.id)>>
           sess2    == IF unread \/ raises THEN scan.sess
                       ELSE IF ~match /\ sess1.state = "transient"
                       THEN [sess1 EXCEPT !.state = "pending"]
                       ELSE sess1
           next     == [scan EXCEPT
                          !.i = @ + 1,
                          !.processed = @ + 1,
                          !.staged = IF unread \/ raises THEN @ ELSE @ + 1,
                          !.broken = raises,
                          !.sess = sess2,
                          !.ioerrors = IF unread THEN @ \cup {t.path} ELSE @,
                          !.pc = IF (scan.i + 1) % scan.chunk_size = 0 THEN "commit"
                                 ELSE IF scan.i + 1 = Len(scan.tasks) THEN "final"
                                 ELSE "files"]
       IN  IF gone
           THEN /\ scan' = [scan EXCEPT
                              !.i = @ + 1,
                              !.pc = IF scan.i + 1 = Len(scan.tasks)
                                     THEN "final" ELSE "files"]
                /\ UNCHANGED <<db, tx, pending>>
           ELSE /\ tx' = tx2
                /\ pending' = pend2
                /\ scan' = next
                /\ db' = db
    /\ LET p    == scan.tasks[scan.i + 1].path
           left == [fs EXCEPT
                      !.files = [g \in DOMAIN fs.files \ {p} |-> fs.files[g]],
                      !.denied = @ \ {p}]
       IN  fs' = CASE race = "none"      -> fs
                   [] race = "removed"   -> left
                   [] race = "linked"    ->
                        [left EXCEPT !.links = [g \in DOMAIN fs.links \cup {p} |->
                                                  IF g = p THEN bytes ELSE fs.links[g]]]
                   [] race = "rewritten" -> [fs EXCEPT !.files[p] = bytes]
    /\ UNCHANGED <<stage, nscans, stable, xorriso, halted, twin>>

\* An iteration during which the filesystem is left alone.
ProcessFile == insert_file("none", Hello)

\* An iteration during which the entry is removed between the test and the
\* read.
ProcessFileLost == insert_file("removed", Hello)

\* An iteration during which the entry is replaced, between the test and
\* the read, by a symbolic link to a regular file holding `bytes`.
ProcessFileLinked(bytes) == insert_file("linked", bytes)

\* An iteration during which the entry is overwritten with `bytes` between
\* the test and the read.
ProcessFileRewritten(bytes) == insert_file("rewritten", bytes)

\* While the loop over the file tasks runs, an entry not yet processed is
\* removed; the test of its iteration skips it.
Vanish(f) ==
    /\ scan.pc = "files"
    /\ f \in DOMAIN fs.files
    /\ \E k \in (scan.i + 1)..Len(scan.tasks) : scan.tasks[k].path = f
    /\ fs' = [fs EXCEPT !.files = [g \in DOMAIN fs.files \ {f} |-> fs.files[g]],
                        !.denied = @ \ {f}]
    /\ UNCHANGED <<db, tx, pending, scan, stage, nscans, stable, xorriso, halted, twin>>

\* While the loop over the file tasks runs, an entry not yet processed is
\* replaced by a symbolic link to a regular file holding `bytes`; the test
\* of its iteration skips it as well.
BecomeLink(f, bytes) ==
    /\ scan.pc = "files"
    /\ f \in DOMAIN fs.files
    /\ \E k \in (scan.i + 1)..Len(scan.tasks) : scan.tasks[k].path = f
    /\ fs' = [fs EXCEPT !.files = [g \in DOMAIN fs.files \ {f} |-> fs.files[g]],
                        !.denied = @ \ {f},
                        !.links = [g \in DOMAIN fs.links \cup {f} |->
                                     IF g = f THEN bytes ELSE fs.links[g]]]
    /\ UNCHANGED <<db, tx, pending, scan, stage, nscans, stable, xorriso, halted, twin>>

\* if (i + 1) % chunk_size == 0: await session.flush(); await
\* session.commit(), at the end of the iteration that filled a chunk.
CommitChunk ==
    /\ scan.pc = "commit"
    /\ CommitOr(tx, pending, scan.sess, scan.broken,
                [scan EXCEPT !.sess = FlushSession(tx, scan.sess),
                             !.staged = 0,
                             !.pc = IF scan.i = Len(scan.tasks) THEN "final"
                                    ELSE "files"])
    /\ UNCHANGED <<fs, stage, nscans, stable, xorriso, halted, twin>>

\* The commit after the loop, and back in _scan the assignment of
\* changed_files, which the next flush writes.
FinalCommit ==
    /\ scan.pc = "final"
    /\ LET commits == scan.processed % scan.chunk_size # 0 \/ Len(scan.tasks) = 0
           sess1   == IF commits THEN FlushSession(tx, scan.sess) ELSE scan.sess
           next    == [scan EXCEPT
                         !.pc = "sweep",
                         !.staged = IF commits THEN 0 ELSE @,
                         !.sess = [sess1 EXCEPT !.changed_files =
                                     IF scan.processed > 0 THEN scan.processed ELSE @]]
       IN  IF commits
           THEN CommitOr(tx, pending, scan.sess, scan.broken, next)
           ELSE /\ scan' = next
                /\ UNCHANGED <<db, tx, pending>>
    /\ UNCHANGED <<fs, stage, nscans, stable, xorriso, halted, twin>>

\* A sweep whose first statement leaves the File rows alone.
delete_invalid_files_late(store) == store

\* delete(File).where(File.is_valid == False)
delete_invalid_files(store) ==
    [store EXCEPT !.files = {r \in store.files : r.is_valid}]

\* A sweep that also prunes the directories without a valid file of their
\* own.
delete_invalid_dirs_pruning(store) ==
    [store EXCEPT !.dirs = {r \in store.dirs :
        r.is_valid /\ \E f \in store.files : f.is_valid /\ f.dir_id = r.id}]

\* delete(Dir).where(Dir.is_valid == False)
delete_invalid_dirs(store) ==
    [store EXCEPT !.dirs = {r \in store.dirs : r.is_valid}]

\* The two bulk deletes in the order of the code, File rows first; no
\* cascade runs.
delete_invalid_entries(store) ==
    delete_invalid_dirs(delete_invalid_files(store))

Sweep ==
    /\ scan.pc = "sweep"
    /\ IF scan.broken \/ FlushFails(tx, pending, scan.sess)
       THEN /\ Abort(IF scan.broken THEN "error" ELSE "integrity_error")
            /\ UNCHANGED <<db, stable>>
       ELSE /\ tx' = delete_invalid_entries(Flushed(tx, pending, scan.sess))
            /\ db' = tx'
            /\ pending' = <<>>
            /\ scan' = [scan EXCEPT !.pc = "swept",
                                    !.sess = FlushSession(tx, scan.sess)]
            /\ stable' = scan.root
    /\ UNCHANGED <<fs, stage, nscans, xorriso, halted, twin>>

\* The sweep statement by statement: the delete of the File rows, which
\* flushes the session first ...
SweepFiles ==
    /\ scan.pc = "sweep"
    /\ IF scan.broken \/ FlushFails(tx, pending, scan.sess)
       THEN /\ Abort(IF scan.broken THEN "error" ELSE "integrity_error")
       ELSE /\ tx' = delete_invalid_files(Flushed(tx, pending, scan.sess))
            /\ pending' = <<>>
            /\ scan' = [scan EXCEPT !.pc = "sweeping",
                                    !.sess = FlushSession(tx, scan.sess)]
    /\ UNCHANGED <<fs, db, stage, nscans, stable, xorriso, halted, twin>>

\* ... and the delete of the Dir rows with the commit.
SweepDirs ==
    /\ scan.pc = "sweeping"
    /\ tx' = delete_invalid_dirs(tx)
    /\ db' = tx'
    /\ scan' = [scan EXCEPT !.pc = "swept"]
    /\ stable' = scan.root
    /\ UNCHANGED <<fs, pending, stage, nscans, xorriso, halted, twin>>

\* delete_invalid_entries returns no value, so the comparison
\* `deleted_files > 0` of _scan raises TypeError: rollback, exit code 1.
AfterSweep ==
    /\ scan.pc = "swept"
    /\ Abort("error")
    /\ UNCHANGED <<fs, db, stage, nscans, stable, xorriso, halted, twin>>

\* A cancellation that takes the batches of the scan back.
InterruptMarking_undoing(mark) ==
    /\ scan.pc \in {"reset", "walk", "list", "files", "commit", "final", "sweep",
                    "swept"}
    /\ scan' = [IdleScan EXCEPT !.pc = "done", !.outcome = "interrupted",
                                !.root = scan.root, !.same = scan.same,
                                !.resumes = scan.resumes, !.db0 = scan.db0,
                                !.ioerrors = scan.ioerrors]
    /\ db' = reset_all_valid_flags(scan.db0)
    /\ tx' = db'
    /\ pending' = <<>>
    /\ halted' = IF mark THEN scan.root ELSE <<>>
    /\ UNCHANGED <<fs, stage, nscans, stable, xorriso, twin>>

\* The scan is cancelled or killed: the session closes without a commit.
\* `mark` records the root for the scan that resumes.
InterruptMarking(mark) ==
    /\ scan.pc \in {"reset", "walk", "list", "files", "commit", "final", "sweep",
                    "sweeping", "swept"}
    /\ Abort("interrupted")
    /\ halted' = IF mark THEN scan.root ELSE <<>>
    /\ UNCHANGED <<fs, db, stage, nscans, stable, xorriso, twin>>

Interrupt == InterruptMarking(twin.restored)

ScanExit ==
    /\ scan.pc = "done"
    /\ scan' = IdleScan
    /\ tx' = EmptyStore
    /\ UNCHANGED <<fs, db, pending, stage, nscans, stable, xorriso, halted, twin>>

(***************************************************************************)
(* Backup Stager (mapping_creator.create_mapping_from_db).                 *)
(***************************************************************************)
StageBases  == {RootD, RootDD}
data_dir    == <<"data">>
backup_dir  == <<"Backup">>
db_file     == <<"var", "fs_index.db">>
output_file == <<"var", "mapping.txt">>

\* Path.with_suffix(".meta.json") for the output file of the model.
with_suffix_meta(path) ==
    Parent(path) \o <<CASE Name(path) = "mapping.txt" -> "mapping.meta.json">>

\* f"{src} {dest}"
MappingLine(src, dest) == PathStr(src) \o " " \o PathStr(dest)

\* select(File).join(Dir).where(File.is_valid == True), in id order.
RECURSIVE SortById(_)
SortById(rows) ==
    IF rows = {} THEN <<>>
    ELSE LET r == CHOOSE q \in rows : \A o \in rows : q.id <= o.id
         IN  <<r>> \o SortById(rows \ {r})

ValidFiles(store) ==
    SortById({f \in store.files :
                f.is_valid /\ \E d \in store.dirs : d.id = f.dir_id})

\* src.relative_to(base) raises ValueError unless base is a prefix of src.
UnderBase(src, base) == IsPrefix(base, src)
relative_to(src, base) == SubSeq(src, Len(base) + 1, Len(src))

\* The rows of the result the loop writes a line for, in order.
Selected(store, base) ==
    SelectSeq(ValidFiles(store),
              LAMBDA f : ~f.is_safed /\ UnderBase(file_path(store, f), base))

\* The rows the loop skips with the "not under base path" warning.
Excluded(store, base) ==
    {f.id : f \in {g \in store.files :
        /\ g.is_valid
        /\ \E d \in store.dirs : d.id = g.dir_id
        /\ ~g.is_safed
        /\ ~UnderBase(file_path(store, g), base)}}

FileLine(store, f, base) ==
    MappingLine(file_path(store, f),
                data_dir \o relative_to(file_path(store, f), base))

\* file_obj.path is self.dir.full_path / self.name.  The statement selects
\* File entities only, File.dir is loaded lazily and the session is new, so
\* the first access to it issues a SELECT from plain attribute access,
\* which the asyncio extension refuses with MissingGreenlet.  The access is
\* made for the first row of the result that is not safed, before the try.
path_raises(store) == \E k \in 1..Len(ValidFiles(store)) : ~ValidFiles(store)[k].is_safed

\* The loop over the result, then the line of the SQLite database file;
\* the state of the pass after them.  An exception of the loop leaves
\* create_mapping_from_db (pc "raised"): the session closes, nothing is
\* written.
mapping_loop(store, base, prev) ==
    LET sel == Selected(store, base)
    IN  IF path_raises(store)
        THEN [IdleStage EXCEPT !.pc = "raised", !.base = base,
                               !.db0 = store, !.prev = prev]
        ELSE [IdleStage EXCEPT
                !.pc = "meta",
                !.base = base,
                !.lines = [k \in 1..Len(sel) |-> FileLine(store, sel[k], base)]
                            \o <<MappingLine(db_file, backup_dir \o <<Name(db_file)>>)>>,
                !.file_ids = [k \in 1..Len(sel) |-> sel[k].id],
                !.skipped = Excluded(store, base),
                !.db0 = store,
                !.prev = prev]

StageStart(base) ==
    /\ Quiet
    /\ stage' = mapping_loop(db, base, IdleStage.prev)
    /\ UNCHANGED <<fs, db, tx, pending, scan, nscans, stable, xorriso, halted, twin>>

\* A sidecar that counts the lines of the manifest.
meta_record_lines(file_ids, mapping_lines) ==
    [written |-> TRUE, file_count |-> Len(mapping_lines)]

\* meta = {"timestamp": ..., "file_count": len(file_ids)}
meta_record(file_ids, mapping_lines) ==
    [written |-> TRUE, file_count |-> Len(file_ids)]

\* meta_path.write_text(json.dumps(meta)); the sidecar's line is appended.
StageWriteMeta ==
    /\ stage.pc = "meta"
    /\ stage' = [stage EXCEPT
          !.pc = "manifest",
          !.meta = meta_record(stage.file_ids, stage.lines),
          !.lines = Append(@, MappingLine(with_suffix_meta(output_file),
                                          backup_dir \o <<"meta.json">>))]
    /\ UNCHANGED <<fs, db, tx, pending, scan, nscans, stable, xorriso, halted, twin>>

\* A pass that goes on to its commit without writing the manifest.
StageWriteManifest_skipped ==
    /\ stage.pc = "manifest"
    /\ stage' = [stage EXCEPT !.pc = "commit"]
    /\ UNCHANGED <<fs, db, tx, pending, scan, nscans, stable, xorriso, halted, twin>>

\* Path(output_file).write_text("\n".join(mapping_lines))
StageWriteManifest ==
    /\ stage.pc = "manifest"
    /\ stage' = [stage EXCEPT !.pc = "commit", !.manifest = stage.lines]
    /\ UNCHANGED <<fs, db, tx, pending, scan, nscans, stable, xorriso, halted, twin>>

\* update(File).where(File.id.in_(file_ids)).values(is_safed=True); commit
mark_safed(store, ids) ==
    [store EXCEPT !.files =
        {IF \E k \in 1..Len(ids) : ids[k] = f.id
         THEN [f EXCEPT !.is_safed = TRUE] ELSE f : f \in store.files}]

\* A commit whose update has no where clause and is not skipped for an
\* empty list of ids.
StageCommit_unfiltered ==
    /\ stage.pc = "commit"
    /\ db' = [db EXCEPT !.files = {[f EXCEPT !.is_safed = TRUE] : f \in db.files}]
    /\ stage' = [stage EXCEPT !.pc = "done"]
    /\ UNCHANGED <<fs, tx, pending, scan, nscans, stable, xorriso, halted, twin>>

\* if file_ids: update ...; commit
StageCommit ==
    /\ stage.pc = "commit"
    /\ db' = IF stage.file_ids # <<>> THEN mark_safed(db, stage.file_ids) ELSE db
    /\ stage' = [stage EXCEPT !.pc = "done"]
    /\ UNCHANGED <<fs, tx, pending, scan, nscans, stable, xorriso, halted, twin>>

\* An update of every row's flag that is committed before the writes.
StageFail_flagging ==
    /\ stage.pc \in {"meta", "manifest"}
    /\ db' = [db EXCEPT !.files = {[f EXCEPT !.is_safed = TRUE] : f \in db.files}]
    /\ stage' = [stage EXCEPT !.pc = "failed"]
    /\ UNCHANGED <<fs, tx, pending, scan, nscans, stable, xorriso, halted, twin>>

\* write_text of the sidecar or of the manifest raises OSError: the
\* exception leaves the `async with` block, the session closes without
\* the update and without a commit.  What the sidecar holds after a failed
\* write of the manifest is what StageWriteMeta wrote.
StageFail ==
    /\ stage.pc \in {"meta", "manifest"}
    /\ stage' = [stage EXCEPT !.pc = "failed"]
    /\ UNCHANGED <<fs, db, tx, pending, scan, nscans, stable, xorriso, halted, twin>>

StageExit ==
    /\ stage.pc \in {"done", "failed", "raised"}
    /\ stage' = IdleStage
    /\ UNCHANGED <<fs, db, tx, pending, scan, nscans, stable, xorriso, halted, twin>>

\* The command is run again with the same base path right after a pass
\* has ended: the process of the first pass exits and the loop of the
\* second runs over the store as the first left it.  prev keeps how the
\* first pass ended and the ids it had written lines for.
StageAgain ==
    /\ stage.pc \in {"done", "failed", "raised"}
    /\ stage.prev.pc = "none"
    /\ stage' = mapping_loop(db, stage.base,
                             [pc |-> stage.pc, file_ids |-> stage.file_ids])
    /\ UNCHANGED <<fs, db, tx, pending, scan, nscans, stable, xorriso, halted, twin>>

(***************************************************************************)
(* Archival tool (xorriso_wrapper.run_xorriso): run by the operator, at    *)
(* any time outside a scan, on whatever mapping file is on disk; its exit  *)
(* status is whatever xorriso returns.                                     *)
(***************************************************************************)
ReturnCodes == {0, 1}

run_xorriso(returncode) ==
    /\ scan.pc = "idle"
    /\ xorriso' = [ran |-> TRUE, returncode |-> returncode]
    /\ xorriso' # xorriso
    /\ UNCHANGED <<fs, db, tx, pending, scan, stage, nscans, stable, halted, twin>>

Next ==
    \/ \E f \in AllFiles : \E data \in Contents : WriteFile(f, data)
    \/ \E f \in AllFiles : RemoveFile(f)
    \/ \E d \in AllDirs : RemoveDir(d)
    \/ \E d \in AllDirs : MakeDir(d)
    \/ \E root \in ScanRoots : ScanStart(root, 2)
    \/ ResetValid
    \/ WalkDir
    \/ ListFiles
    \/ ProcessFile
    \/ CommitChunk
    \/ FinalCommit
    \/ Sweep
    \/ AfterSweep
    \/ Interrupt
    \/ ScanExit
    \/ \E base \in StageBases : StageStart(base)
    \/ StageWriteMeta
    \/ StageWriteManifest
    \/ StageCommit
    \/ StageExit

Spec == Init /\ [][Next]_vars

\* Scans, some of them cancelled, and staging passes of an unchanging tree,
\* with runs of the archival tool in between.
NextBurn ==
    \/ \E root \in ScanRoots : \E chunk \in ChunkSizes : ScanStart(root, chunk)
    \/ ResetValid
    \/ WalkDir
    \/ ListFiles
    \/ ProcessFile
    \/ CommitChunk
    \/ FinalCommit
    \/ Sweep
    \/ AfterSweep
    \/ Interrupt
    \/ ScanExit
    \/ \E base \in StageBases : StageStart(base)
    \/ StageWriteMeta
    \/ StageWriteManifest
    \/ StageCommit
    \/ StageExit
    \/ \E rc \in ReturnCodes : run_xorriso(rc)

SpecBurn == Init /\ [][NextBurn]_vars

(***************************************************************************)
(* Resuming a cancelled scan.  To compare what a resumed scan leaves with   *)
(* what one uninterrupted scan leaves, the operator sets a copy of the      *)
(* database file aside before the last scan that can follow a change of    *)
(* the tree, lets that scan run, puts the copy back, and scans again, this  *)
(* time with a cancellation.  No staging pass runs once the copy is taken.  *)
(***************************************************************************)
ExtraScans   == 2
ResumeChunks == {1, 2}

CopyDatabase ==
    /\ Quiet
    /\ nscans = MaxScans - 1
    /\ ~twin.copied
    /\ twin' = [twin EXCEPT !.copied = TRUE, !.copy = db]
    /\ UNCHANGED <<fs, db, tx, pending, scan, stage, nscans, stable, xorriso, halted>>

\* Put the copy back after a scan that reached the end of its sweep.
RestoreDatabase ==
    /\ Quiet
    /\ twin.copied /\ ~twin.restored
    /\ nscans = MaxScans
    /\ stable # <<>>
    /\ twin' = [twin EXCEPT !.restored = TRUE, !.root = stable, !.left = db]
    /\ db' = twin.copy
    /\ stable' = <<>>
    /\ halted' = <<>>
    /\ UNCHANGED <<fs, tx, pending, scan, stage, nscans, xorriso>>

\* The scans that follow once the copy is back: a scan of the same root
\* and, if that one was cancelled, one more.
ExtraScanStart(root, chunk) ==
    /\ twin.restored
    /\ root = twin.root
    /\ nscans > MaxScans => halted = root
    /\ ScanStartWithin(MaxScans + ExtraScans, root, chunk)

NextResume ==
    \/ \E f \in AllFiles : \E data \in Contents : WriteFile(f, data)
    \/ RemoveFile(FileAX)
    \/ ScanStart(RootD, chunk_size_default)
    \/ ResetValid
    \/ WalkDir
    \/ ListFiles
    \/ ProcessFile
    \/ CommitChunk
    \/ FinalCommit
    \/ Sweep
    \/ AfterSweep
    \/ Interrupt
    \/ ScanExit
    \/ ~twin.copied /\ StageStart(RootD)
    \/ StageWriteMeta
    \/ StageWriteManifest
    \/ StageCommit
    \/ StageExit
    \/ CopyDatabase
    \/ \E chunk \in ResumeChunks : ExtraScanStart(RootD, chunk)
    \/ RestoreDatabase

SpecResume == Init /\ [][NextResume]_vars

\* Staging passes that can fail at a write and can be repeated at once,
\* over stores that cancelled scans have left with rows of both validities.
NextStage ==
    \/ WriteFile(FileRY, Hello)
    \/ \E chunk \in ResumeChunks : ScanStart(RootD, chunk)
    \/ ResetValid
    \/ WalkDir
    \/ ListFiles
    \/ ProcessFile
    \/ CommitChunk
    \/ FinalCommit
    \/ Sweep
    \/ AfterSweep
    \/ Interrupt
    \/ ScanExit
    \/ \E base \in StageBases : StageStart(base)
    \/ StageWriteMeta
    \/ StageWriteManifest
    \/ StageCommit
    \/ StageFail
    \/ StageAgain
    \/ StageExit

SpecStage == Init /\ [][NextStage]_vars

\* Scans of both roots and writes in between, one scan more than MaxScans,
\* with groups of one file, of two files and of the default size.
DeepChunks == ResumeChunks \cup {chunk_size_default}

NextDeep ==
    \/ \E f \in AllFiles : \E data \in Contents : WriteFileWithin(MaxScans + 1, f, data)
    \/ \E root \in ScanRoots : \E chunk \in DeepChunks :
          ScanStartWithin(MaxScans + 1, root, chunk)
    \/ ResetValid
    \/ WalkDir
    \/ ListFiles
    \/ ProcessFile
    \/ CommitChunk
    \/ FinalCommit
    \/ Sweep
    \/ AfterSweep
    \/ InterruptMarking(TRUE)
    \/ ScanExit

SpecDeep == Init /\ [][NextDeep]_vars

\* Scans of trees in which read permissions come and go.  The scans run
\* with the default group size, which no tree of the model fills: the loop
\* over the file tasks never reaches a chunk commit.
NextIO ==
    \/ \E p \in Deniable : \E readable \in BOOLEAN : chmod(p, readable)
    \/ \E f \in AllFiles : \E data \in Contents : WriteFile(f, data)
    \/ \E root \in ScanRoots : ScanStart(root, chunk_size_default)
    \/ \E root \in RefusedRoots : ScanRefused(root)
    \/ ResetValid
    \/ WalkDir
    \/ ListFiles
    \/ ProcessFile
    \/ FinalCommit
    \/ Sweep
    \/ AfterSweep
    \/ ScanExit

SpecIO == Init /\ [][NextIO]_vars

\* Scans of one store from roots that contain one another or lie side by
\* side, with the default group size (no chunk commit falls due).
ManyRoots == {RootD, RootDD, DirA}

NextRoots ==
    \/ \E f \in AllFiles : RemoveFile(f)
    \/ RemoveTree(RootDD)
    \/ MakeDir(DirAE)
    \/ \E root \in ManyRoots : ScanStartWithin(MaxScans + 1, root, chunk_size_default)
    \/ ResetValid
    \/ WalkDir
    \/ ListFiles
    \/ ProcessFile
    \/ FinalCommit
    \/ Sweep
    \/ AfterSweep
    \/ Interrupt
    \/ ScanExit

SpecRoots == Init /\ [][NextRoots]_vars

(***************************************************************************)
(* The earlier scanner (blustash/db/utils.py, scan_and_store): it inserts  *)
(* a Dir for every directory and a File for every file without looking    *)
(* for rows, hashes the files in concurrent tasks and commits once.  Its   *)
(* tables have no is_valid and is_safed columns; the rows of the model     *)
(* keep these fields at their defaults.                                    *)
(***************************************************************************)
scan_and_store(start_path) ==
    /\ Quiet
    /\ nscans < MaxScans
    /\ start_path \in fs.dirs
    /\ scan' = [IdleScan EXCEPT !.pc = "walk_dirs", !.root = start_path,
                                !.stack = <<[path |-> start_path, parent |-> NULL]>>,
                                !.db0 = db]
    /\ tx' = db
    /\ pending' = <<>>
    /\ nscans' = nscans + 1
    /\ stable' = <<>>
    /\ UNCHANGED <<fs, db, stage, xorriso, halted, twin>>

\* One call of walk_dirs(path, parent_obj): Dir(...), session.add, flush,
\* dir_lookup[path] = dir_obj, then the calls for the subdirectories.  The
\* row has a fresh parent or none, so ux_dir_parent_name cannot reject it.
walk_dirs ==
    /\ scan.pc = "walk_dirs"
    /\ \E listing \in iterdir(Head(scan.stack).path) :
       LET fr      == Head(scan.stack)
           dir_obj == NewDir(NextId(tx.dirs), fr.path, fr.parent)
           stack1  == ChildFrames(fr.path, listing, dir_obj.id) \o Tail(scan.stack)
       IN  /\ tx' = [tx EXCEPT !.dirs = @ \cup {dir_obj}]
           /\ scan' = [scan EXCEPT
                 !.stack = stack1,
                 !.dir_lookup = Append(@, [path |-> fr.path, dir |-> dir_obj.id]),
                 !.pc = IF stack1 = <<>> THEN "insert_files" ELSE "walk_dirs"]
    /\ UNCHANGED <<fs, db, pending, stage, nscans, stable, xorriso, halted, twin>>

\* One iteration of the loop of insert_files over dir_lookup: the listing
\* of the directory is awaited, then one task process_file is created per
\* listed regular file, in listing order.  scan.i counts the directories
\* listed.  The tasks created so far run while the next listing is awaited;
\* after the last directory insert_files awaits asyncio.gather.
insert_files ==
    /\ scan.pc = "insert_files"
    /\ \E listing \in iterdir(scan.dir_lookup[scan.i + 1].path) :
          LET more == DirTasks(scan.dir_lookup[scan.i + 1], listing)
          IN  scan' = [scan EXCEPT
                !.tasks = @ \o more,
                !.hashing = @ \cup (Len(scan.tasks) + 1 .. Len(scan.tasks) + Len(more)),
                !.i = @ + 1,
                !.pc = IF scan.i + 1 = Len(scan.dir_lookup)
                       THEN "gather" ELSE "insert_files"]
    /\ UNCHANGED <<fs, db, tx, pending, stage, nscans, stable, xorriso, halted, twin>>

\* The task of a listed file resumes after get_size_and_hash, whenever its thread is done:
\* File(...); session.add(file_obj).  An entry that is no regular file is
\* left out, a read that raises is logged.
process_file(entry) ==
    /\ scan.pc \in {"insert_files", "gather"}
    /\ \E k \in scan.hashing :
          /\ scan.tasks[k].path = entry
          /\ scan' = [scan EXCEPT !.hashing = @ \ {k}]
    /\ LET t == CHOOSE u \in {scan.tasks[k] : k \in scan.hashing} : u.path = entry
       IN  pending' = IF ~is_file_now(t.path) \/ raises_PermissionError(t.path)
                      THEN pending
                      ELSE Append(pending,
                                  NewFile(t.path, t.dir, fs.files[t.path], NULL))
    /\ UNCHANGED <<fs, db, tx, stage, nscans, stable, xorriso, halted, twin>>

\* asyncio.gather has returned: session.commit() flushes the File objects
\* in the order they were added.
scan_and_store_commit ==
    /\ scan.pc = "gather"
    /\ scan.hashing = {}
    /\ tx' = Flushed(tx, pending, scan.sess)
    /\ db' = tx'
    /\ pending' = <<>>
    /\ scan' = [scan EXCEPT !.pc = "done", !.outcome = "stored"]
    /\ UNCHANGED <<fs, stage, nscans, stable, xorriso, halted, twin>>

NextGather ==
    \/ WriteFile(FileDY, Hello)
    \/ scan_and_store(RootD)
    \/ walk_dirs
    \/ insert_files
    \/ \E f \in AllFiles \cup MoreFiles : process_file(f)
    \/ scan_and_store_commit
    \/ ScanExit

SpecGather == Init /\ [][NextGather]_vars

(***************************************************************************)
(* insert_dirs(start_path, session, parent_dir_obj) of blustash/db/utils.py *)
(* is the recursive insert of the directory tree without the lookup table; *)
(* scan_and_store has its own walk_dirs and nothing in the repository      *)
(* calls insert_dirs.  A caller passes its open session; the rows are      *)
(* flushed into that transaction and the function does not commit.         *)
(***************************************************************************)
insert_dirs_call(start_path) ==
    /\ Quiet
    /\ nscans < MaxScans
    /\ start_path \in fs.dirs
    /\ scan' = [IdleScan EXCEPT !.pc = "insert_dirs", !.root = start_path,
                                !.stack = <<[path |-> start_path, parent |-> NULL]>>,
                                !.db0 = db]
    /\ tx' = db
    /\ pending' = <<>>
    /\ nscans' = nscans + 1
    /\ stable' = <<>>
    /\ UNCHANGED <<fs, db, stage, xorriso, halted, twin>>

\* One call of insert_dirs: Dir(...), session.add, flush, then the calls
\* for the entries of the listing that are directories and no symlinks; a
\* listing that raises is caught and logged.  The call for the start path
\* returns its Dir object when the last recursive call has returned.
insert_dirs ==
    /\ scan.pc = "insert_dirs"
    /\ \E listing \in iterdir(Head(scan.stack).path) :
       LET fr      == Head(scan.stack)
           dir_obj == NewDir(NextId(tx.dirs), fr.path, fr.parent)
           stack1  == ChildFrames(fr.path, listing, dir_obj.id) \o Tail(scan.stack)
       IN  /\ tx' = [tx EXCEPT !.dirs = @ \cup {dir_obj}]
           /\ scan' = [scan EXCEPT
                 !.stack = stack1,
                 !.pc = IF stack1 = <<>> THEN "done" ELSE "insert_dirs",
                 !.outcome = IF stack1 = <<>> THEN "returned" ELSE @]
    /\ UNCHANGED <<fs, db, pending, stage, nscans, stable, xorriso, halted, twin>>

\* Dir.set_full_path_hash(): self.full_path_hash =
\* compute_full_path_hash(self.full_path), the digest of "/" and the names
\* on the parent chain of the row.  Nothing in the repository calls it.
set_full_path_hash(dirs, row) ==
    [row EXCEPT !.full_path_hash = compute_full_path_hash(full_path(dirs, row.id))]

\* A caller of insert_dirs calls set_full_path_hash on one of the Dir
\* objects of its session once insert_dirs has returned; the parent chain
\* of the object is loaded, the objects were built with their parents.
\* The row of a start path below the root of the filesystem has no parent,
\* and its digest becomes that of "/" and its own name.
SetFullPathHash(id) ==
    /\ scan.pc = "done" /\ scan.outcome = "returned"
    /\ \E row \in tx.dirs :
          /\ row.id = id
          /\ tx' = [tx EXCEPT !.dirs = (@ \ {row}) \cup {set_full_path_hash(tx.dirs, row)}]
    /\ UNCHANGED <<fs, db, pending, scan, stage, nscans, stable, xorriso, halted, twin>>

NextDirs ==
    \/ \E d \in AllDirs : MakeDir(d)
    \/ \E p \in Deniable : \E readable \in BOOLEAN : chmod(p, readable)
    \/ \E root \in ScanRoots : insert_dirs_call(root)
    \/ insert_dirs
    \/ \E row \in tx.dirs : SetFullPathHash(row.id)
    \/ ScanExit

SpecDirs == Init /\ [][NextDirs]_vars

\* Scans of trees that lose files and directories, the sweep taken
\* statement by statement, with the default group size (no chunk commit
\* falls due).
NextSweep ==
    \/ \E f \in AllFiles : RemoveFile(f)
    \/ \E d \in AllDirs : RemoveDir(d)
    \/ MakeDir(DirAE)
    \/ \E root \in ScanRoots : ScanStart(root, chunk_size_default)
    \/ ResetValid
    \/ WalkDir
    \/ ListFiles
    \/ ProcessFile
    \/ FinalCommit
    \/ SweepFiles
    \/ SweepDirs
    \/ AfterSweep
    \/ Interrupt
    \/ ScanExit

SpecSweep == Init /\ [][NextSweep]_vars

\* Scans with a group size of 2 of trees with up to five regular files,
\* some of which are removed, replaced by links or overwritten while the
\* scan processes its file tasks.
NextRace ==
    \/ \E f \in MoreFiles : WriteFileWithin(MaxScans - 1, f, Hello)
    \/ ScanStartWithin(MaxScans - 1, RootD, 2)
    \/ ResetValid
    \/ WalkDir
    \/ ListFiles
    \/ \E f \in AllFiles \cup MoreFiles : Vanish(f)
    \/ \E f \in AllFiles \cup MoreFiles : BecomeLink(f, World)
    \/ ProcessFile
    \/ ProcessFileLost
    \/ \E bytes \in Contents : ProcessFileLinked(bytes)
    \/ \E bytes \in Contents : ProcessFileRewritten(bytes)
    \/ CommitChunk
    \/ FinalCommit
    \/ Sweep
    \/ AfterSweep
    \/ ScanExit

SpecRace == Init /\ [][NextRace]_vars

\* Scans of /d in trees in which a directory with a subdirectory and a
\* file, and a file beside them, lose and regain their read permission,
\* with the default group size (no chunk commit falls due).
DenyPaths == {DirA, FileDX}

NextDeny ==
    \/ MakeDir(DirAE)
    \/ \E p \in DenyPaths : \E readable \in BOOLEAN : chmod(p, readable)
    \/ WriteFile(FileRY, Hello)
    \/ \E data \in Contents : WriteFile(FileDX, data)
    \/ ScanStart(RootD, chunk_size_default)
    \/ ResetValid
    \/ WalkDir
    \/ ListFiles
    \/ ProcessFile
    \/ FinalCommit
    \/ Sweep
    \/ AfterSweep
    \/ ScanExit

SpecDeny == Init /\ [][NextDeny]_vars

\* Scans of /d with small groups that are cancelled and taken up again, in
\* trees in which a directory and a file lose their read permission.
NextHalt ==
    \/ WriteFile(FileRY, Hello)
    \/ \E p \in DenyPaths : chmod(p, FALSE)
    \/ \E chunk \in ResumeChunks : ScanStart(RootD, chunk)
    \/ ResetValid
    \/ WalkDir
    \/ ListFiles
    \/ ProcessFile
    \/ CommitChunk
    \/ FinalCommit
    \/ Sweep
    \/ AfterSweep
    \/ InterruptMarking(TRUE)
    \/ ScanExit

SpecHalt == Init /\ [][NextHalt]_vars

\* The steps of a running scan.  The scan is one coroutine that awaits each
\* of them and is resumed by the event loop when the awaited thread or
\* database call is done: a step that can be taken is taken.
ScanStep ==
    \/ ResetValid
    \/ WalkDir
    \/ ListFiles
    \/ ProcessFile
    \/ CommitChunk
    \/ FinalCommit
    \/ Sweep
    \/ AfterSweep

\* Scans nobody cancels, of trees with links, unreadable directories and
\* unreadable files.
SpecLive == Init /\ [][NextIO]_vars /\ WF_vars(ScanStep)

(***************************************************************************)
(* Properties.                                                             *)
(***************************************************************************)
\* Rows with the sweep flag left out of the comparison.
NoValid(rows) == {[r EXCEPT !.is_valid = TRUE] : r \in rows}

\* The scan ran to its end: it was not cancelled.
ScanEnded == scan.pc = "done" /\ scan.outcome # "interrupted"

\* The filesystem path a Dir row stands for in a scan of `root`: the names
\* on its parent chain below the parent directory of the root.
DirRowPath(store, dir_id, root) == Parent(root) \o full_path(store.dirs, dir_id)
FileRowPath(store, f, root) == DirRowPath(store, f.dir_id, root) \o <<f.name>>

\* C1 (Idempotence): a scan of the root whose previous scan reached the end
\* of sweep, with the filesystem untouched since, inserts no Dir or File
\* row, deletes none, changes no row except its is_valid flag while it runs,
\* adds no ScanSession, and leaves the store as it found it.
C1_Idempotence ==
    (scan.same /\ scan.pc # "idle") =>
        /\ pending = <<>>
        /\ scan.sess.state \in {"none", "transient"}
        /\ \A store \in {tx, db} :
              /\ NoValid(store.dirs) = NoValid(scan.db0.dirs)
              /\ NoValid(store.files) = NoValid(scan.db0.files)
              /\ store.sessions = scan.db0.sessions
        /\ (scan.pc = "swept" \/ ScanEnded) => db = scan.db0

\* A rescan of an unchanged tree with two files and three directories has
\* finished its sweep.
C1_Witness ==
    /\ scan.same
    /\ scan.pc = "swept"
    /\ Cardinality(db.files) >= 2
    /\ Cardinality(db.dirs) >= 3

\* C2 (Change detection): when a scan has run to its end and the bytes of a
\* file differ from the hash of the row indexed for it at the start of the
\* scan, the store holds exactly one File row for that (dir, name), with a
\* new id and the hash of the new bytes, and the prior row is gone.
C2_ChangeDetection ==
    ScanEnded =>
        \A r0 \in scan.db0.files :
            LET p == FileRowPath(scan.db0, r0, scan.root)
            IN  (/\ p \in DOMAIN fs.files
                 /\ read_and_hash(fs.files[p]).hash # r0.hash_xx128)
                => LET rows == {r \in db.files :
                                  r.dir_id = r0.dir_id /\ r.name = r0.name}
                   IN  /\ Cardinality(rows) = 1
                       /\ \A r \in rows :
                            /\ r.id # r0.id
                            /\ r.hash_xx128 = read_and_hash(fs.files[p]).hash
                       /\ r0 \notin db.files

\* C3 (Deletion detection): when a scan has run to its end, no File row is
\* left for a file indexed at its start and no longer on the filesystem, and
\* no Dir row for a directory indexed at its start and no longer there.
C3_DeletionDetection ==
    ScanEnded =>
        /\ \A r0 \in scan.db0.files :
              LET p == FileRowPath(scan.db0, r0, scan.root)
              IN  (p \in AllFiles /\ IsPrefix(scan.root, p) /\ p \notin DOMAIN fs.files)
                  => ~\E r \in db.files : r.dir_id = r0.dir_id /\ r.name = r0.name
        /\ \A d0 \in scan.db0.dirs :
              LET q == DirRowPath(scan.db0, d0.id, scan.root)
              IN  (q \in AllDirs /\ IsPrefix(scan.root, q) /\ q \notin fs.dirs)
                  => ~\E d \in db.dirs : d.id = d0.id

\* Directories and regular files of the subtree of a root, symlinks left out.
SubtreeDirs(root)  == {d \in fs.dirs : IsPrefix(root, d)}
SubtreeFiles(root) == {f \in DOMAIN fs.files : IsPrefix(root, f)}

\* A path strictly below a directory of the scanned subtree that cannot be
\* listed.
Hidden(p, root) ==
    \E d \in fs.denied \cap fs.dirs : IsPrefix(root, d) /\ IsPrefix(d, p) /\ p # d

\* The directories of the subtree the walk gets to: those that are not
\* below a directory that cannot be listed.
ListedDirs(root) == {d \in SubtreeDirs(root) : ~Hidden(d, root)}

\* The regular files of the subtree the scan can list and read.
ReadableFiles(root) ==
    {f \in SubtreeFiles(root) : f \notin fs.denied /\ Parent(f) \notin fs.denied
                                  /\ ~Hidden(f, root)}

\* Exactly one Dir row per directory of `dirs` and exactly one File row per
\* regular file of `files`, with the size and hash of its bytes, attached
\* to the row of its directory; no other rows.
Mirrors(store, root, dirs, files) ==
    /\ \A d \in dirs :
          Cardinality({r \in store.dirs : DirRowPath(store, r.id, root) = d}) = 1
    /\ Cardinality(store.dirs) = Cardinality(dirs)
    /\ \A f \in files :
          Cardinality({r \in store.files :
                          /\ r.name = Name(f)
                          /\ DirRowPath(store, r.dir_id, root) = Parent(f)
                          /\ r.size = Len(fs.files[f])
                          /\ r.hash_xx128 = xxh3_128_hexdigest(fs.files[f])}) = 1
    /\ Cardinality(store.files) = Cardinality(files)

DistinctPathHashes(root) ==
    \A d, e \in SubtreeDirs(root) :
        d # e => compute_full_path_hash(d) # compute_full_path_hash(e)

\* C4 (Index mirrors the tree), as stated: after the sweep of a scan of root
\* R that started on an empty store, the store holds exactly one Dir row
\* per directory of the subtree of R and exactly one File row per readable
\* regular file of it.
C4_IndexMirrorsTree_Original ==
    (scan.pc = "swept" /\ scan.db0 = EmptyStore) =>
        Mirrors(db, scan.root, SubtreeDirs(scan.root),
                SubtreeFiles(scan.root) \ fs.denied)

\* C4 (Index mirrors the tree), amended: after the sweep of a scan of root R
\* that started on an empty store, provided no two directories of the
\* subtree have the same path hash, the store holds exactly one Dir row per
\* directory of the subtree that is not below a directory that cannot be
\* listed, and exactly one File row per regular file that can be read and
\* lies in such a directory that can be listed; no other rows.
C4_IndexMirrorsTree ==
    (scan.pc = "swept" /\ scan.db0 = EmptyStore /\ DistinctPathHashes(scan.root))
        => Mirrors(db, scan.root, ListedDirs(scan.root), ReadableFiles(scan.root))

\* A scan of /d on an empty store has finished its sweep in a tree with
\* the directory /d/sgayrach unlistable, a subdirectory and a file below
\* it, the file /d/d/x unreadable and the file /d/y readable: three Dir rows
\* and one File row.
C4_Witness ==
    /\ scan.pc = "swept" /\ scan.db0 = EmptyStore /\ scan.root = RootD
    /\ DistinctPathHashes(RootD)
    /\ DirA \in fs.denied /\ DirAE \in fs.dirs /\ FileAX \in DOMAIN fs.files
    /\ FileDX \in fs.denied /\ FileRY \in DOMAIN fs.files
    /\ Cardinality(db.dirs) = 3 /\ Cardinality(db.files) = 1

\* The stores a client can observe: the committed one and the view of the
\* scanning session's open transaction.
Stores == {db, tx}

\* C5 (File uniqueness): in every state of the store, committed or inside
\* the transaction of a running scan, no two File rows share (dir_id, name).
C5_FileUniqueness ==
    \A store \in Stores : \A a \in store.files : \A b \in store.files :
        (a.dir_id = b.dir_id /\ a.name = b.name) => a = b

\* A scan was cancelled between two file commits: the store it left holds
\* rows it had revalidated and rows that still carry the cleared flag,
\* and the bytes of an indexed file differ from the stored hash.
C5_Witness ==
    /\ scan.pc = "done" /\ scan.outcome = "interrupted"
    /\ \E r \in db.files : r.is_valid
    /\ \E r \in db.files :
          LET p == FileRowPath(db, r, scan.root)
          IN  /\ ~r.is_valid
              /\ p \in DOMAIN fs.files
              /\ r.hash_xx128 # read_and_hash(fs.files[p]).hash

\* C6 (Dir uniqueness): in every committed state of the store, no two Dir
\* rows share (parent_id, name), two rows without a parent included.
C6_DirUniqueness ==
    \A a \in db.dirs : \A b \in db.dirs :
        (a.parent_id = b.parent_id /\ a.name = b.name) => a = b

\* C7 (At most one valid version): in every state of the store, mid-scan
\* and after an interrupted scan included, at most one File row with
\* is_valid = true exists per (dir_id, name).
C7_AtMostOneValid ==
    \A store \in Stores : \A a \in store.files : \A b \in store.files :
        (a.is_valid /\ b.is_valid /\ a.dir_id = b.dir_id /\ a.name = b.name)
            => a.id = b.id

\* A scan of the root of a scan that was cancelled between two file
\* commits, the tree untouched in between, is midway through its files:
\* it found rows of both validities and has revalidated some.
C7_Witness ==
    /\ scan.resumes /\ scan.pc = "files" /\ scan.i >= 1
    /\ \E r \in scan.db0.files : r.is_valid
    /\ \E r \in scan.db0.files : ~r.is_valid
    /\ \E r \in tx.files : r.is_valid
    /\ \E r \in tx.files : ~r.is_valid

\* The manifest of the staging pass is on disk.
ManifestWritten == stage.pc \in {"commit", "done"}

\* The staging pass has completed: it has written both files and has
\* committed.
PassCompleted == stage.pc = "done"

\* An exception of its loop has left the staging pass.
PassRaised == stage.pc = "raised"

\* The row has a Dir row and the path rebuilt from it lies under the base.
ReconstructedUnder(store, r, base) ==
    /\ \E d \in store.dirs : d.id = r.dir_id
    /\ IsPrefix(base, file_path(store, r))

\* The position of the row's id in the ids the pass wrote a line for.
WrittenAt(r) == {k \in 1..Len(stage.file_ids) : stage.file_ids[k] = r.id}

\* C8 (Manifest selection): a staging pass with base B, once its manifest
\* is written or the pass has ended without it, has written a file line
\* for a File row iff the row is valid, not safed and its reconstructed
\* path lies under B; the line is "<source path> /<data dir>/<path relative
\* to B>"; there are no other file lines.
C8_ManifestSelection ==
    (ManifestWritten \/ PassCompleted \/ PassRaised) =>
        /\ \A r \in stage.db0.files :
              /\ WrittenAt(r) # {}
                    <=> (r.is_valid /\ ~r.is_safed
                         /\ ReconstructedUnder(stage.db0, r, stage.base))
              /\ \A k \in WrittenAt(r) :
                    LET src == file_path(stage.db0, r)
                        rel == SubSeq(src, Len(stage.base) + 1, Len(src))
                    IN  stage.manifest[k] =
                            PathStr(src) \o " /data/" \o JoinSegs(rel)
              /\ Cardinality(WrittenAt(r)) <= 1
        /\ \A k \in 1..Len(stage.file_ids) :
              \E r \in stage.db0.files : r.id = stage.file_ids[k]

\* C10 (Manifest shape): a pass that has k files to map ends with a
\* manifest of k + 2 lines, the last two for the index store file and the
\* metadata sidecar, both under the backup root; the sidecar records k, and
\* k rows are newly safed.
C10_ManifestShape ==
    (PassCompleted \/ PassRaised) =>
        LET k == Len(Selected(stage.db0, stage.base))
        IN  /\ Len(stage.manifest) = k + 2
            /\ stage.manifest[k + 1] = "/var/fs_index.db /Backup/fs_index.db"
            /\ stage.manifest[k + 2] = "/var/mapping.meta.json /Backup/meta.json"
            /\ stage.meta.written
            /\ stage.meta.file_count = k
            /\ k = Cardinality({r \in db.files :
                      /\ r.is_safed
                      /\ \E r0 \in stage.db0.files : r0.id = r.id /\ ~r0.is_safed})

\* The ids of the rows of a store that are flagged is_safed.
SafedIds(store) == {r.id : r \in {q \in store.files : q.is_safed}}

\* C11 (Staging commit order): from the start of a staging pass up to
\* its commit the store is as the pass found it; when the pass is at its
\* commit the sidecar and the manifest are written, the manifest holding the
\* lines of the pass, and the commit can be taken whether or not the
\* archival tool has run and whatever it returned; the only step of a pass
\* that changes the store is that commit, it leaves the result of the
\* archival tool alone and flags the rows the pass wrote a line for, all
\* of them at once.
C11_StagingCommitOrder ==
    /\ [](stage.pc \in {"meta", "manifest", "commit"} => db = stage.db0)
    /\ [](stage.pc = "commit" =>
            /\ stage.meta.written
            /\ stage.manifest = stage.lines
            /\ Len(stage.manifest) = Len(stage.file_ids) + 2
            /\ ENABLED StageCommit)
    /\ [][(stage.pc # "idle" /\ db' # db) =>
            /\ stage.pc = "commit" /\ stage'.pc = "done"
            /\ xorriso' = xorriso
            /\ SafedIds(db') = SafedIds(db) \cup
                  {stage.file_ids[k] : k \in 1..Len(stage.file_ids)}]_vars

\* A pass has committed, after the sidecar and the manifest were written,
\* while the last run of the archival tool had failed.
C11_Witness ==
    /\ PassCompleted
    /\ stage.meta.written /\ stage.manifest = stage.lines
    /\ xorriso.ran /\ xorriso.returncode = 1
    /\ db.files # {}

\* The scan in progress resumes a cancelled scan of the same root, the
\* filesystem untouched since that scan started, and has ended its sweep.
\* The cancelled scan started from a store some earlier history left.
ResumedSwept == scan.pc = "swept" /\ scan.resumes

\* The rows the committed batches of the cancelled scan wrote (inserted or
\* revalidated) are valid File rows, for some of the given files of the
\* tree, of the store the resuming scan found; each valid row for one of
\* the files is still there.
BatchRowsKept(files) ==
    \A r0 \in scan.db0.files :
        (r0.is_valid /\ FileRowPath(scan.db0, r0, scan.root) \in files) =>
        \E r \in db.files :
            /\ r.id = r0.id /\ r.dir_id = r0.dir_id /\ r.name = r0.name
            /\ r.hash_xx128 = r0.hash_xx128 /\ r.is_safed = r0.is_safed

\* Exactly one File row for each of the files, none of them a duplicate.
OneRowPerFile(root, files) ==
    /\ \A f \in files :
          Cardinality({r \in db.files : FileRowPath(db, r, root) = f}) = 1
    /\ \A r, q \in db.files : (r.dir_id = q.dir_id /\ r.name = q.name) => r = q

CancelKeepsBatches ==
    [][(scan.pc # "done" /\ scan'.pc = "done" /\ scan'.outcome = "interrupted")
          => db' = db]_vars

ValidView(store) ==
    {[path |-> file_path(store, r), hash |-> r.hash_xx128, is_safed |-> r.is_safed] :
        r \in {f \in store.files : f.is_valid}}

\* C14 (Convergence after interruption), as stated: a scan that resumes a
\* cancelled scan and reaches the end of sweep leaves the valid (path,
\* content hash) rows, with their is_safed values, that one uninterrupted
\* scan of the same tree from the same store left.
C14_Convergence_Original ==
    (ResumedSwept /\ twin.restored) => ValidView(db) = ValidView(twin.left)

\* C14 (Convergence after interruption), amended: the same, for trees in
\* which no two directories share a path hash.
C14_Convergence ==
    (ResumedSwept /\ twin.restored /\ DistinctPathHashes(scan.root)) =>
        ValidView(db) = ValidView(twin.left)

\* The resumed scan has ended its sweep; the scan before it was cancelled
\* between two file batches.
C14_Witness ==
    /\ ResumedSwept /\ twin.restored /\ DistinctPathHashes(scan.root)
    /\ \E r \in scan.db0.files : r.is_valid
    /\ \E r \in scan.db0.files : ~r.is_valid
    /\ Cardinality(ValidView(db)) = 2

\* The uniqueness constraints of the schema, the two unique indexes
\* ux_file_dir_name and ux_dir_parent_name, and its foreign keys.
UniquenessHolds(store) ==
    /\ ux_file_dir_name(store.files)
    /\ ux_dir_parent_name(store.dirs)

ReferencesHold(store) ==
    /\ \A f \in store.files :
          /\ \E d \in store.dirs : d.id = f.dir_id
          /\ f.session_id = NULL \/ \E x \in store.sessions : x.id = f.session_id
          /\ f.ancestor_id = NULL \/ \E g \in store.files : g.id = f.ancestor_id
    /\ \A d \in store.dirs :
          d.parent_id = NULL \/ \E q \in store.dirs : q.id = d.parent_id

\* The commit of a file group, or the last commit of the file pass, failed.
GroupCommitFails ==
    /\ scan.pc \in {"commit", "final"}
    /\ scan'.pc = "done" /\ scan'.outcome # "interrupted"

\* C15 (Group failure isolation): a failing group commit leaves the
\* committed store as the earlier groups left it, drops the open
\* transaction, and ends the scan with a failure outcome; the store then
\* satisfies the uniqueness and the referential-integrity constraints.
C15_GroupFailureIsolation ==
    /\ [][GroupCommitFails =>
            /\ db' = db /\ tx' = db /\ pending' = <<>>
            /\ scan'.outcome \in {"integrity_error", "error"}]_vars
    /\ []((scan.pc = "done" /\ scan.outcome = "integrity_error") =>
            UniquenessHolds(db) /\ ReferencesHold(db))

\* The commit of the second file group of a scan has failed; the store
\* holds the row the first group committed, valid, beside rows that still
\* carry the cleared flag.
C15_Witness ==
    /\ scan.pc = "done" /\ scan.outcome = "integrity_error"
    /\ \E r \in db.files : r.is_valid
    /\ \E r \in db.files : ~r.is_valid
    /\ db # reset_all_valid_flags(scan.db0)

\* What a scan that ended its sweep did to the File rows it found, and the
\* ScanSession rows it added.
InsertedRows == NoValid(db.files) \ NoValid(scan.db0.files)
DeletedRows  == NoValid(scan.db0.files) \ NoValid(db.files)
NewSessions  == db.sessions \ scan.db0.sessions

\* C16 (Lazy session persistence): a scan that ended its sweep has added
\* exactly one ScanSession if it inserted or deleted a File row, and none
\* otherwise.
C16_LazySessionPersistence ==
    scan.pc = "swept" =>
        Cardinality(NewSessions) =
            (IF InsertedRows # {} \/ DeletedRows # {} THEN 1 ELSE 0)

\* C17 (Change count): the changed_files value of the ScanSession a scan
\* that ended its sweep has added equals the number of File rows the scan
\* inserted plus the number it deleted at sweep.
C17_ChangeCount ==
    scan.pc = "swept" =>
        \A x \in NewSessions :
            x.changed_files = Cardinality(InsertedRows) + Cardinality(DeletedRows)

\* The rows the index holds for a path: the Dir row with the hash of the
\* path, the File row of that name attached to the Dir row of its directory.
DirRowsFor(e)  == {r \in db.dirs : r.full_path_hash = compute_full_path_hash(e)}
FileRowsFor(f) == {r \in db.files : r.name = Name(f) /\ r.dir_id \in
                                        {d.id : d \in DirRowsFor(Parent(f))}}

\* The files whose read raised during the scan, and the directories whose
\* listing did.
UnreadFiles  == scan.ioerrors \cap DOMAIN fs.files
UnlistedDirs == scan.ioerrors \cap fs.dirs

\* C18 (Hash failure is non-fatal): a scan, of a tree without two
\* directories of the same path hash, in which the read of a file has
\* failed and which has ended without being cancelled, has reached the end
\* of its sweep, and the store holds no row for the file that could not be
\* read.
C18_HashFailureNonFatal ==
    (ScanEnded /\ UnreadFiles # {} /\ DistinctPathHashes(scan.root)) =>
        /\ stable = scan.root
        /\ \A f \in UnreadFiles : FileRowsFor(f) = {}

\* Path q lies strictly below directory d.
Below(q, d) == IsPrefix(d, q) /\ q # d

\* C19 (Unreadable directory equals deletion): when a scan, of a tree
\* without two directories of the same path hash, in which the listing of
\* a directory has failed, has ended without being cancelled, the store
\* holds none of the Dir and File rows that were indexed for paths
\* strictly below that directory.
C19_UnreadableDirectory ==
    (ScanEnded /\ UnlistedDirs # {} /\ DistinctPathHashes(scan.root)) =>
        \A d \in UnlistedDirs :
            /\ \A r \in scan.db0.dirs :
                  Below(DirRowPath(scan.db0, r.id, scan.root), d) =>
                      \A q \in db.dirs : q.id # r.id
            /\ \A r \in scan.db0.files :
                  Below(FileRowPath(scan.db0, r, scan.root), d) =>
                      \A q \in db.files : q.id # r.id

\* The names of the symbolic links; no other entry of the model has them.
LinkNames == {Name(l) : l \in Symlinks}

AtOrBelowLink(path) == \E l \in Symlinks : IsPrefix(l, path)

\* C20 (Symlinks are never indexed): no store, committed or inside the
\* transaction of a scan, holds a Dir or File row for a symbolic link of the
\* tree, no File object for one is waiting to be flushed, and the scan has
\* no call, lookup entry or file task for a link or for a path below one;
\* and a scan of a tree without two directories of the same path hash has
\* no valid File row and no File object waiting to be flushed for a listed
\* entry that is a symbolic link.
C20_SymlinksNeverIndexed ==
    /\ \A store \in Stores :
          /\ \A r \in store.dirs : r.name \notin LinkNames
          /\ \A r \in store.files : r.name \notin LinkNames
    /\ \A k \in 1..Len(pending) : pending[k].name \notin LinkNames
    /\ \A k \in 1..Len(scan.stack) : ~AtOrBelowLink(scan.stack[k].path)
    /\ \A k \in 1..Len(scan.dir_lookup) : ~AtOrBelowLink(scan.dir_lookup[k].path)
    /\ \A k \in 1..Len(scan.tasks) : ~AtOrBelowLink(scan.tasks[k].path)
    /\ (scan.pc \in {"files", "commit", "final", "sweep"} /\ DistinctPathHashes(scan.root)) =>
          \A k \in 1..Len(scan.tasks) :
             LET t == scan.tasks[k]
             IN  is_symlink(t.path) =>
                   /\ \A r \in tx.files :
                         (r.name = Name(t.path) /\ r.dir_id = t.dir) => ~r.is_valid
                   /\ \A j \in 1..Len(pending) :
                         ~(pending[j].name = Name(t.path) /\ pending[j].dir_id = t.dir)

\* C21 (Precondition failure): a scan whose root is missing, is no
\* directory or is not readable ends refused with the store exactly as it
\* found it and no transaction opened, and no scan with such a root gets to
\* the invalidate phase or beyond.
C21_PreconditionFailure ==
    /\ scan.outcome = "refused" =>
          /\ scan.root \notin fs.dirs \ fs.denied
          /\ db = scan.db0
          /\ tx = EmptyStore /\ pending = <<>>
    /\ scan.pc \notin {"idle", "done"} => scan.root \in fs.dirs \ fs.denied

\* A scan of an unreadable directory was refused while the store holds
\* valid rows.
C21_Witness ==
    /\ scan.outcome = "refused"
    /\ scan.root \in fs.dirs \cap fs.denied
    /\ \E r \in db.files : r.is_valid
    /\ \E r \in db.dirs : r.is_valid

\* The flushed Dir row of the open transaction with the given id stands for
\* the given path.
FlushedDirOf(path, id) ==
    /\ id # NULL
    /\ \E r \in tx.dirs : r.id = id /\ r.full_path_hash = compute_full_path_hash(path)

\* C22 (Parent before child): while a scan reconciles with a usable
\* session, every pending call for a directory below the root carries the
\* id of the flushed row of its parent directory, every file task and
\* every File object waiting to be flushed refers to a flushed Dir row, and
\* every Dir row in the transaction has a parent that is a flushed row.
C22_ParentBeforeChild ==
    (scan.pc \in {"walk", "list", "files", "commit", "final"} /\ ~scan.broken) =>
        /\ \A k \in 1..Len(scan.stack) :
              IF scan.stack[k].path = scan.root THEN scan.stack[k].parent = NULL
              ELSE FlushedDirOf(Parent(scan.stack[k].path), scan.stack[k].parent)
        /\ \A k \in 1..Len(scan.dir_lookup) :
              FlushedDirOf(scan.dir_lookup[k].path, scan.dir_lookup[k].dir)
        /\ \A k \in 1..Len(scan.tasks) :
              FlushedDirOf(Parent(scan.tasks[k].path), scan.tasks[k].dir)
        /\ \A k \in 1..Len(pending) :
              \E r \in tx.dirs : r.id = pending[k].dir_id
        /\ \A k \in 1..Len(scan.dir_lookup) :
              LET row == DirById(tx.dirs, scan.dir_lookup[k].dir)
              IN  IF scan.dir_lookup[k].path = scan.root THEN row.parent_id = NULL
                  ELSE FlushedDirOf(Parent(scan.dir_lookup[k].path), row.parent_id)

\* A File object for a file two levels below the root waits to be flushed
\* while calls for directories have been made.
C22_Witness ==
    /\ scan.pc = "files" /\ ~scan.broken
    /\ Len(pending) > 0
    /\ Len(scan.dir_lookup) >= 3
    /\ \E k \in 1..Len(scan.tasks) : Len(scan.tasks[k].path) = Len(scan.root) + 2

\* C23 (Bounded batches): while the file tasks are processed, the number of
\* file entries staged since the last commit is at most the group size.
C23_BoundedBatches ==
    scan.pc \in {"files", "commit", "final", "sweep"} => scan.staged <= scan.chunk_size

\* C24 (All file work is committed on return): when
\* insert_files_with_progress has returned, no File object waits to be
\* flushed and the File rows of the transaction are those of the committed
\* store.
C24_CommittedOnReturn ==
    scan.pc = "sweep" =>
        /\ pending = <<>>
        /\ tx.files = db.files
        /\ scan.staged = 0

\* The invalidate phase of the scan has just committed.
JustReset ==
    /\ scan.pc = "walk"
    /\ scan.dir_lookup = <<>>
    /\ scan.stack = <<[path |-> scan.root, parent |-> NULL]>>

\* Row q is row r but for its is_valid flag.
SameDirBut(q, r) ==
    /\ q.id = r.id /\ q.name = r.name /\ q.parent_id = r.parent_id
    /\ q.full_path_hash = r.full_path_hash

SameFileBut(q, r) ==
    /\ q.id = r.id /\ q.name = r.name /\ q.dir_id = r.dir_id
    /\ q.hash_xx128 = r.hash_xx128 /\ q.size = r.size
    /\ q.is_safed = r.is_safed
    /\ q.session_id = r.session_id /\ q.ancestor_id = r.ancestor_id

\* C25 (Invalidate frame): after the invalidate phase every Dir and File
\* row is invalid, the rows are those the scan found (none added, none
\* removed), and each has its id, name, parent or dir reference, hash, size
\* and is_safed unchanged.
C25_InvalidateFrame ==
    JustReset =>
        /\ \A q \in db.dirs \cup db.files : ~q.is_valid
        /\ \A r \in scan.db0.dirs : \E q \in db.dirs : SameDirBut(q, r)
        /\ \A q \in db.dirs : \E r \in scan.db0.dirs : SameDirBut(q, r)
        /\ \A r \in scan.db0.files : \E q \in db.files : SameFileBut(q, r)
        /\ \A q \in db.files : \E r \in scan.db0.files : SameFileBut(q, r)
        /\ Cardinality(db.dirs) = Cardinality(scan.db0.dirs)
        /\ Cardinality(db.files) = Cardinality(scan.db0.files)
        /\ db.sessions = scan.db0.sessions
        /\ tx = db

\* The invalidate phase has run on a store of three directories with valid
\* and invalid rows.
C25_Witness ==
    /\ JustReset
    /\ \E r \in scan.db0.files : r.is_valid
    /\ \E r \in scan.db0.files : ~r.is_valid
    /\ \E r \in scan.db0.dirs : r.is_valid
    /\ Cardinality(scan.db0.dirs) >= 3

\* The File rows, or pending File objects, of one (dir, name).
RowsAt(files, name, dir) == {r \in files : r.name = name /\ r.dir_id = dir}

\* The file of task t is readable and its content hash is the one stored
\* in the latest row the scan found for its (dir, name).
Matched(t) ==
    /\ t.path \in DOMAIN fs.files \ fs.denied
    /\ LatestFiles(scan.db0.files, Name(t.path), t.dir) # {}
    /\ \A r \in LatestFiles(scan.db0.files, Name(t.path), t.dir) :
           r.hash_xx128 = read_and_hash(fs.files[t.path]).hash

\* The tasks the loop has gone through.
Processed == {scan.tasks[k] : k \in 1..scan.i}

\* C26 (Revalidation frame): once the loop has processed a file whose
\* content hash equals the stored one (and so has every processed file of
\* that (dir, name)), the rows of that (dir, name) are the rows the scan
\* found, with id, size, hash and is_safed unchanged, the latest one valid,
\* and no File object for it waits to be inserted; and a staging pass
\* selects no row that is marked is_safed.
C26_RevalidationFrame ==
    /\ (scan.pc \in {"files", "commit", "final", "sweep"} /\ ~scan.broken) =>
          \A t \in Processed :
             (\A u \in Processed :
                 (Name(u.path) = Name(t.path) /\ u.dir = t.dir) => Matched(u))
             => /\ RowsAt(tx.files, Name(t.path), t.dir) =
                      {[r EXCEPT !.is_valid =
                            r \in LatestFiles(scan.db0.files, Name(t.path), t.dir)] :
                         r \in RowsAt(scan.db0.files, Name(t.path), t.dir)}
                /\ \A k \in 1..Len(pending) :
                      ~(pending[k].name = Name(t.path) /\ pending[k].dir_id = t.dir)
    /\ stage.pc # "idle" =>
          \A k \in 1..Len(stage.file_ids) : \A r \in stage.db0.files :
             r.id = stage.file_ids[k] => ~r.is_safed

\* The loop has ended without failure; it met a file that is unchanged,
\* whose row the invalidate phase had marked, and a file it had no row for.
C26_Witness ==
    /\ scan.pc = "sweep" /\ ~scan.broken
    /\ \E t \in Processed :
          /\ Matched(t)
          /\ \E r \in LatestFiles(scan.db0.files, Name(t.path), t.dir) : r.is_valid
          /\ \E r \in RowsAt(db.files, Name(t.path), t.dir) : r.is_valid
    /\ \E t \in Processed : ~Matched(t)

\* A File object waiting to be inserted is as the loop builds it for a file
\* without a row of the stored hash: valid, not safed, its predecessor the
\* latest row of its (dir, name) if there is one, and that row invalid.
StagedAsNew(p) ==
    /\ p.is_valid /\ ~p.is_safed
    /\ LET prior == LatestFiles(tx.files, p.name, p.dir_id)
       IN  IF prior = {} THEN p.ancestor_id = NULL
           ELSE \A r \in prior : p.ancestor_id = r.id /\ ~r.is_valid

\* The flush of File object p has inserted one row for it, linked to the
\* ScanSession of this scan and to its predecessor, and has left the
\* predecessor as it was.
InsertedFor(p) ==
    /\ Cardinality({r \in tx'.files \ tx.files :
                       r.name = p.name /\ r.dir_id = p.dir_id}) = 1
    /\ \A r \in tx'.files \ tx.files :
          (r.name = p.name /\ r.dir_id = p.dir_id) =>
             /\ r.is_valid /\ ~r.is_safed
             /\ r.hash_xx128 = p.hash_xx128 /\ r.size = p.size
             /\ r.ancestor_id = p.ancestor_id
             /\ \E q \in tx'.sessions \ scan.db0.sessions : q.id = r.session_id
    /\ \A r \in tx.files : r.id = p.ancestor_id => r \in tx'.files /\ ~r.is_valid

\* C27 (Supersession): in a tree without two directories of the same path
\* hash, the File object the loop builds for a file with no row, or with a
\* row of another hash, is as StagedAsNew says, and unless the scan is
\* cancelled the step that takes it from the session inserts exactly one
\* row for it as InsertedFor says.
C27_Supersession ==
    /\ [](scan.pc \in {"files", "commit", "final"} /\ DistinctPathHashes(scan.root) =>
             \A k \in 1..Len(pending) : StagedAsNew(pending[k]))
    /\ [][(/\ scan.pc \in {"files", "commit", "final"}
           /\ DistinctPathHashes(scan.root)
           /\ pending # <<>>
           /\ pending' # pending
           /\ scan'.outcome # "interrupted")
          => \A k \in 1..Len(pending) : InsertedFor(pending[k])]_vars

\* C28 (Sweep completeness and order): between the two deletes of the sweep
\* the transaction holds no invalid File row and still holds every Dir row
\* of the committed store; at the end of the sweep every Dir row and every
\* File row of the store is valid.
C28_SweepCompleteAndOrdered ==
    /\ scan.pc = "sweeping" =>
          /\ \A f \in tx.files : f.is_valid
          /\ \A r \in db.dirs : \E q \in tx.dirs : q.id = r.id
    /\ scan.pc = "swept" =>
          /\ \A r \in db.dirs \cup db.files : r.is_valid
          /\ tx = db

\* The sweep has deleted the row of a file and is about to delete the row
\* of a directory.
C28_Witness ==
    /\ scan.pc = "sweeping"
    /\ \E f \in db.files : \A q \in tx.files : q.id # f.id
    /\ \E r \in tx.dirs : ~r.is_valid
    /\ \E f \in tx.files : f.is_valid

\* C29 (Path round-trip): in a scan of a tree without two directories of
\* the same path hash, for every directory the walk has entered in its
\* lookup the path reconstructed from the parent chain of its row is the
\* path of the directory, and the hash of the reconstructed path is the
\* stored full_path_hash; for every file the loop has processed the
\* reconstructed path of its valid row is the path of the file.
C29_PathRoundTrip ==
    (/\ scan.pc \in {"walk", "list", "files", "commit", "final", "sweep"}
     /\ ~scan.broken
     /\ DistinctPathHashes(scan.root))
    => /\ \A k \in 1..Len(scan.dir_lookup) :
             LET e == scan.dir_lookup[k]
             IN  /\ full_path(tx.dirs, e.dir) = e.path
                 /\ compute_full_path_hash(full_path(tx.dirs, e.dir))
                       = DirById(tx.dirs, e.dir).full_path_hash
       /\ \A t \in Processed :
             \A r \in RowsAt(tx.files, Name(t.path), t.dir) :
                r.is_valid => file_path(tx, r) = t.path

\* The Dir rows of the store filed under the path hash of directory d.
RowsOf(store, d) == {r \in store.dirs : r.full_path_hash = compute_full_path_hash(d)}

\* C30 (Single root): at the end of the sweep of a scan of root R exactly
\* one Dir row has no parent, and it is the row of R; every other Dir row
\* is the row of a directory below R and its parent is the row of the
\* parent directory.
C30_SingleRoot ==
    scan.pc = "swept" =>
        /\ Cardinality({r \in db.dirs : r.parent_id = NULL}) = 1
        /\ \A r \in db.dirs : r.parent_id = NULL <=> r \in RowsOf(db, scan.root)
        /\ \A r \in db.dirs :
              r.parent_id # NULL =>
                 \E d \in SubtreeDirs(scan.root) \ {scan.root} :
                    /\ r \in RowsOf(db, d)
                    /\ \E q \in RowsOf(db, Parent(d)) : q.id = r.parent_id

\* A scan has ended its sweep on a store whose root row was the row of
\* another directory, and a row of the earlier scans is still in the store.
C30_Witness ==
    /\ scan.pc = "swept"
    /\ \E r \in scan.db0.dirs :
          /\ r.parent_id = NULL
          /\ r \notin RowsOf(scan.db0, scan.root)
    /\ \E r \in db.dirs : \E q \in scan.db0.dirs : q.id = r.id

\* The ids of the Dir rows the sweep of the running scan has deleted.
SweptDirIds == {r.id : r \in scan.db0.dirs} \ {r.id : r \in db.dirs}

\* C31 (Referential integrity after sweep): at the end of the sweep every
\* File row refers to a Dir row of the store, every Dir row with a parent
\* refers to a Dir row of the store, and no row refers to a Dir row the
\* sweep has deleted.
C31_ReferentialIntegrity ==
    scan.pc = "swept" =>
        /\ \A f \in db.files : \E d \in db.dirs : d.id = f.dir_id
        /\ \A d \in db.dirs :
              d.parent_id # NULL => \E q \in db.dirs : q.id = d.parent_id
        /\ \A f \in db.files : f.dir_id \notin SweptDirIds
        /\ \A d \in db.dirs : d.parent_id \notin SweptDirIds

\* A scan of /d, whose root row had no parent when the scan found it, has
\* ended its sweep: the sweep has deleted the row of a removed directory
\* that had a file and a subdirectory, with their rows, and rows are left.
C31_Witness ==
    /\ scan.pc = "swept" /\ scan.root = RootD
    /\ \E r \in scan.db0.dirs : r.parent_id = NULL /\ r \in RowsOf(scan.db0, RootD)
    /\ \E g \in SweptDirIds :
          /\ \E f \in scan.db0.files : f.dir_id = g
          /\ \E d \in scan.db0.dirs : d.parent_id = g
    /\ db.files # {}

\* The File rows inserted by the running scan for the k-th listed file; a
\* row that stands for several listed files (directories with one path
\* hash share a Dir row) counts for the first of them.
InsertedAt(k) ==
    IF \E j \in 1..(k - 1) : /\ Name(scan.tasks[j].path) = Name(scan.tasks[k].path)
                             /\ scan.tasks[j].dir = scan.tasks[k].dir
    THEN {}
    ELSE {r \in RowsAt(tx.files, Name(scan.tasks[k].path), scan.tasks[k].dir) :
            \A q \in scan.db0.files : q.id # r.id}

\* C33 (Serialized writers): while file hashing tasks are running no step
\* touches the committed store or the transaction, and the File rows a scan
\* inserts have their ids in the order in which the files were listed.
C33_SerializedWriters ==
    /\ [][scan.hashing # {} => (db' = db /\ tx' = tx)]_vars
    /\ [](\A k, l \in 1..Len(scan.tasks) :
            k < l => \A a \in InsertedAt(k) : \A b \in InsertedAt(l) : a.id <= b.id)

\* C34 (Successful completion): a scan that has committed its sweep, having
\* met no I/O error and no database error on the way, and is not cancelled,
\* ends in the success outcome, and the phases of a scan follow one
\* another in the order invalidate, reconcile, sweep, end.
C34_SuccessfulCompletion ==
    /\ [][scan'.pc = "walk" => scan.pc \in {"reset", "walk"}]_vars
    /\ [][scan'.pc = "sweep" => scan.pc \in {"files", "commit", "final"}]_vars
    /\ [][scan'.pc = "swept" => scan.pc \in {"sweep", "sweeping"}]_vars
    /\ [][(scan.pc = "swept" /\ scan'.pc = "done" /\ scan'.outcome # "interrupted")
            => scan'.outcome = "success"]_vars

\* C35 (Scan termination): a scan that has started reaches its end, and a
\* scan of a tree without two directories of the same path hash that has
\* ended without being refused or cancelled has performed the sweep.
C35_ScanTermination ==
    /\ (scan.pc = "reset") ~> (scan.pc = "done")
    /\ [](/\ scan.pc = "done"
          /\ scan.outcome \notin {"refused", "interrupted"}
          /\ DistinctPathHashes(scan.root)
          => stable = scan.root)

\* The two lines every manifest ends with: the database file and the
\* sidecar.
TrailingLines ==
    <<"/var/fs_index.db /Backup/fs_index.db",
      "/var/mapping.meta.json /Backup/meta.json">>

\* C36 (Staging is idempotent): when a staging pass has completed and a
\* second pass runs with the same base and no scan in between, no
\* exception leaves the second pass, it has no file to write a line for
\* and leaves the store as it found it, its sidecar records the file count
\* 0, and its manifest holds the two trailing lines only.
C36_StagingIdempotent ==
    stage.prev.pc = "done" =>
        /\ ~PassRaised
        /\ stage.file_ids = <<>>
        /\ db = stage.db0
        /\ stage.pc \in {"manifest", "commit", "done"} =>
              stage.meta = [written |-> TRUE, file_count |-> 0]
        /\ stage.pc \in {"commit", "done"} => stage.manifest = TrailingLines

\* The second of two passes with one base has completed, the first having
\* completed before it, over a store that holds File rows.
C36_Witness ==
    /\ stage.prev.pc = "done"
    /\ PassCompleted
    /\ db.files # {}

\* The row as the staging pass found it.
RowBefore(r) == CHOOSE o \in stage.db0.files : o.id = r.id

\* The pass has set is_safed on the row.
FlaggedByPass(r) == r.is_safed /\ ~RowBefore(r).is_safed

\* C37 (Staging frame): from its start to its end a staging pass leaves
\* the Dir and ScanSession rows as they were, keeps the set of File rows,
\* and changes nothing of a File row but is_safed, from false to true, at
\* its commit, and only of valid rows its manifest has a line for.
C37_StagingFrame ==
    stage.pc # "idle" =>
        /\ db.dirs = stage.db0.dirs
        /\ db.sessions = stage.db0.sessions
        /\ {r.id : r \in db.files} = {o.id : o \in stage.db0.files}
        /\ Cardinality(db.files) = Cardinality(stage.db0.files)
        /\ \A r \in db.files :
              /\ [r EXCEPT !.is_safed = RowBefore(r).is_safed] = RowBefore(r)
              /\ r.is_safed # RowBefore(r).is_safed =>
                    /\ FlaggedByPass(r)
                    /\ r.is_valid
                    /\ stage.pc = "done"
                    /\ \E k \in 1..Len(stage.file_ids) :
                          /\ stage.file_ids[k] = r.id
                          /\ stage.manifest[k] = FileLine(stage.db0, RowBefore(r), stage.base)

\* A pass has committed over a store with Dir rows, a ScanSession row and
\* File rows that are not valid.
C37_Witness ==
    /\ stage.pc = "done"
    /\ db.dirs # {} /\ db.sessions # {}
    /\ \E r \in db.files : ~r.is_valid

\* The ids of the rows a pass with the base would write a line for.
SelectedIds(store, base) ==
    [k \in 1..Len(Selected(store, base)) |-> Selected(store, base)[k].id]

\* C38 (Staging failure leaves flags untouched): when a write of the
\* sidecar or of the manifest has failed, the store is as the pass found
\* it, and the pass that follows selects the rows the failed pass had
\* selected.
C38_FailureKeepsFlags ==
    /\ stage.pc = "failed" =>
          /\ db = stage.db0
          /\ SelectedIds(db, stage.base) = stage.file_ids
    /\ stage.prev.pc = "failed" => stage.file_ids = stage.prev.file_ids

\* The pass after a pass that failed at a write has ended; the store holds
\* File rows.
C38_Witness ==
    /\ stage.prev.pc = "failed"
    /\ stage.pc = "done"
    /\ db.files # {}
====
